---- MODULE Spec2Model ----
(***************************************************************************)
(* HadoopAPIClient (src/app/services/hadoop_service.py): the WebHDFS       *)
(* client of the gateway.  Every coroutine of the client is modelled as a  *)
(* call that is suspended at each network round trip; every request the    *)
(* client hands to httpx is recorded, and the backend's answer to it is an *)
(* input of the step that resumes the call.                                *)
(***************************************************************************)
EXTENDS Integers, Sequences, FiniteSets, TLC

(* ------------------------------------------------------------------ *)
(* bounds of the model                                                 *)
(* ------------------------------------------------------------------ *)
\* longest file_content (a sequence of bytes) a caller passes
MaxLen == 1
\* the byte values used in file contents
Bytes == {0, 255}

(* ------------------------------------------------------------------ *)
(* configuration (src/app/core/config.py)                              *)
(* ------------------------------------------------------------------ *)
HADOOP_HOST == "localhost"
HADOOP_PORT == 9870
HADOOP_USER == "root"

\* Python's None
None == "<None>"

\* defaults of upload_file's keyword arguments
DEFAULT_BLOCKSIZE == 134217728
DEFAULT_REPLICATION == 3
DEFAULT_PERMISSION == "755"
DEFAULT_BUFFERSIZE == 4096

(* ------------------------------------------------------------------ *)
(* values                                                              *)
(* ------------------------------------------------------------------ *)
\* a path is the sequence of its characters
Paths == { <<"/", "a">>, <<"/", "d", "/">> }

\* the permission arguments given to mkdir
Permissions == { None, "", "700" }

\* file contents: byte sequences up to MaxLen
Contents == UNION { [1..n -> Bytes] : n \in 0..MaxLen }

\* the calls (coroutines) on one client, and the ones a caller that awaits
\* each call before it makes the next one uses
Calls == {"c1", "c2"}
Awaited == {"c1"}

\* str(b).lower() of a Python bool
BoolStr(b) == IF b THEN "true" ELSE "false"

(* ------------------------------------------------------------------ *)
(* the backend namespace: the root directory and, below it, two names  *)
(* that may each hold a file or a directory with one name in it        *)
(* ------------------------------------------------------------------ *)
Root == <<"/">>
\* the paths below the root, in the order of their names
FsOrder == << <<"/", "a">>, <<"/", "a", "/", "f">>, <<"/", "d">>, <<"/", "d", "/", "f">> >>
FsPaths == { FsOrder[i] : i \in DOMAIN FsOrder }

Absent == [type |-> "ABSENT", content |-> <<>>]
Directory == [type |-> "DIRECTORY", content |-> <<>>]
File(b) == [type |-> "FILE", content |-> b]

(* ------------------------------------------------------------------ *)
(* JSON values as httpx's Response.json() yields them                  *)
(*   [t |-> "obj", f |-> <function from keys to JSON values>]          *)
(*   [t |-> "arr", a |-> <sequence>], [t |-> "str", s |-> <string>]    *)
(*   [t |-> "num", n |-> <integer>],  [t |-> "bool", b |-> <boolean>]  *)
(*   [t |-> "null"]                                                    *)
(* and [t |-> "invalid"] for a body json() cannot decode               *)
(* ------------------------------------------------------------------ *)
JObj(f) == [t |-> "obj", f |-> f]
JStr(s) == [t |-> "str", s |-> s]
JNum(n) == [t |-> "num", n |-> n]
JArr(a) == [t |-> "arr", a |-> a]
JBool(b) == [t |-> "bool", b |-> b]
JNull == [t |-> "null"]
JInvalid == [t |-> "invalid"]
EmptyDict == JObj(<<>>)

\* the str() of a JSON scalar inside an f-string
PyStr(j) == IF j.t = "str" THEN j.s
            ELSE IF j.t = "num" THEN ToString(j.n)
            ELSE "None"

(* ------------------------------------------------------------------ *)
(* response bodies the backend sends                                   *)
(* ------------------------------------------------------------------ *)
Body(text, json) == [text |-> text, json |-> json]

\* {"RemoteException": {"message": "File exists"}}
BodyRemote ==
    Body("{RemoteException:{message:File exists}}",
         JObj([RemoteException |-> JObj([message |-> JStr("File exists")])]))
\* {"RemoteException": {}}: the error object without a message
BodyRemoteNoMsg ==
    Body("{RemoteException:{}}", JObj([RemoteException |-> EmptyDict]))
\* {"error": "x"}: JSON of another shape, a dict
BodyOtherDict == Body("{error:x}", JObj([error |-> JStr("x")]))
\* ["x"]: JSON of another shape, not a dict
BodyList == Body("[x]", JArr(<<JStr("x")>>))
\* {"RemoteException": "x"}: the error field is not a dict
BodyRemoteStr ==
    Body("{RemoteException:x}", JObj([RemoteException |-> JStr("x")]))
\* <html>Bad Gateway</html>: not JSON
BodyHtml == Body("<html>Bad Gateway</html>", JInvalid)
\* the empty body
BodyEmpty == Body("", JInvalid)

ErrorBodies == { BodyRemote, BodyRemoteNoMsg, BodyOtherDict, BodyList,
                 BodyRemoteStr, BodyHtml }

\* {"FileStatus": {"length": n, "blockSize": .., "replication": .., "type": ..}}
BodyFileStatus(n, type) ==
    Body("{FileStatus:..}",
         JObj([FileStatus |->
                 JObj([length |-> JNum(n), blockSize |-> JNum(DEFAULT_BLOCKSIZE),
                       replication |-> JNum(DEFAULT_REPLICATION),
                       type |-> JStr(type)])]))
\* {"boolean": true}
BodyBoolean(b) == Body("{boolean:" \o BoolStr(b) \o "}",
                       JObj([boolean |-> JBool(b)]))

\* one entry of a LISTSTATUS answer
Child(suffix, type, n) ==
    JObj([pathSuffix |-> JStr(suffix), type |-> JStr(type), length |-> JNum(n)])
\* {"FileStatuses": {"FileStatus": [...]}}
BodyFileStatuses(children) ==
    Body("{FileStatuses:{FileStatus:[..]}}",
         JObj([FileStatuses |-> JObj([FileStatus |-> JArr(children)])]))

\* the listings a backend returns: the children in the backend's order
Listings ==
    { <<>>,
      << Child(<<"f">>, "FILE", MaxLen) >>,
      << Child(<<"g">>, "DIRECTORY", 0), Child(<<"f">>, "FILE", 0) >> }


(* ------------------------------------------------------------------ *)
(* what the backend answers to one request                             *)
(*   transport: "ok", or the httpx.TransportError raised instead of a  *)
(*   response (ConnectError, ReadTimeout)                              *)
(* ------------------------------------------------------------------ *)
Reply(status, headers, body, content) ==
    [transport |-> "ok", status |-> status, headers |-> headers,
     body |-> body, content |-> content]
NoReply(exc) ==
    [transport |-> exc, status |-> 0, headers |-> <<>>,
     body |-> BodyEmpty, content |-> <<>>]
NoResponse == NoReply(None)

TransportErrors == { NoReply("ConnectError"), NoReply("ReadTimeout") }

SuccessStatuses == {200, 201}
FailureStatuses == {302, 401, 403, 404, 409, 500}
DataNodes == { "http://dn1:9864/webhdfs/v1/x?op=CREATE&user.name=root",
               "http://dn2:9864/webhdfs/v1/x?op=CREATE&user.name=root" }

\* the answers to the CREATE request
CreateReplies ==
    { Reply(s, <<>>, BodyEmpty, <<>>) : s \in SuccessStatuses }
    \cup { Reply(307, <<>>, BodyEmpty, <<>>) }
    \cup { Reply(307, [Location |-> l], BodyEmpty, <<>>) : l \in DataNodes \cup {""} }
    \cup { Reply(s, <<>>, b, <<>>) : s \in FailureStatuses, b \in {BodyRemote, BodyHtml} }
    \cup TransportErrors

\* the answers of a data node to the payload PUT
PutReplies ==
    { Reply(s, <<>>, BodyEmpty, <<>>) : s \in SuccessStatuses \cup {307} }
    \cup { Reply(s, <<>>, b, <<>>) : s \in FailureStatuses, b \in {BodyRemote, BodyHtml} }
    \cup TransportErrors

\* the answers to a GETFILESTATUS request
StatusReplies ==
    { Reply(s, <<>>, b, <<>>) :
        s \in SuccessStatuses,
        b \in { BodyFileStatus(n, "FILE") : n \in 0..MaxLen }
              \cup { BodyFileStatus(0, "DIRECTORY"), BodyOtherDict, BodyHtml } }
    \cup { Reply(s, <<>>, b, <<>>) : s \in FailureStatuses \cup {307}, b \in ErrorBodies }
    \cup TransportErrors

\* the answers to an OPEN request (redirects followed by httpx)
OpenReplies ==
    { Reply(s, <<>>, BodyEmpty, b) : s \in SuccessStatuses, b \in Contents }
    \cup { Reply(s, <<>>, b, <<>>) : s \in FailureStatuses, b \in ErrorBodies }
    \cup TransportErrors

\* the answers to DELETE, MKDIRS and RENAME
BooleanReplies ==
    { Reply(s, <<>>, BodyBoolean(b), <<>>) : s \in SuccessStatuses, b \in BOOLEAN }
    \cup { Reply(s, <<>>, b, <<>>) : s \in FailureStatuses \cup {307}, b \in ErrorBodies }
    \cup TransportErrors

\* the answers to LISTSTATUS
ListReplies ==
    { Reply(s, <<>>, b, <<>>) :
        s \in SuccessStatuses,
        b \in { BodyFileStatuses(l) : l \in Listings } \cup { BodyOtherDict, BodyHtml } }
    \cup { Reply(s, <<>>, b, <<>>) : s \in FailureStatuses \cup {307}, b \in ErrorBodies }
    \cup TransportErrors

\* the answers to GETHOMEDIRECTORY
HomeReplies ==
    { Reply(s, <<>>, b, <<>>) : s \in SuccessStatuses, b \in { BodyOtherDict, BodyHtml } }
    \cup { Reply(s, <<>>, b, <<>>) : s \in FailureStatuses \cup {307}, b \in {BodyRemote, BodyHtml} }
    \cup TransportErrors

(* ------------------------------------------------------------------ *)
(* how a call ends                                                     *)
(* ------------------------------------------------------------------ *)
Pending == [kind |-> "pending"]
Return(value) == [kind |-> "return", value |-> value]
\* an exception of class cls, its message, and the status of the response it
\* carries (0: it carries none)
Raise(cls, msg, status) == [kind |-> "raise", cls |-> cls, msg |-> msg, status |-> status]

(* ------------------------------------------------------------------ *)
(* httpx                                                               *)
(* ------------------------------------------------------------------ *)
\* Headers.get(name): None when the header is absent
HeadersGet(headers, name) ==
    IF name \in DOMAIN headers THEN headers[name] ELSE None

\* raise_for_status() as before httpx 0.18: only 4xx and 5xx raise
is_success_pre018(resp) == resp.status < 400

\* Response.raise_for_status() returns normally (httpx >= 0.18: on a 2xx only)
is_success(resp) == resp.status \in 200..299

\* the httpx.HTTPStatusError raise_for_status() raises
HTTPStatusError(resp) == Raise("httpx.HTTPStatusError", resp.body.text, resp.status)

\* the exception an await on the transport raises when no response arrives
TransportError(resp) == Raise("httpx.TransportError", resp.transport, 0)

(* ------------------------------------------------------------------ *)
(* HadoopAPIClient._handle_http_error                                  *)
(* ------------------------------------------------------------------ *)
\* the raw text always: the message of the error object is not extracted
error_msg_text(resp) == resp.body.text

\* error.response.json().get("RemoteException", {}).get("message", "Unknown error"),
\* and error.response.text when any step of it raises
error_msg(resp) ==
    LET j == resp.body.json IN
    IF j.t # "obj" THEN resp.body.text
    ELSE LET re == IF "RemoteException" \in DOMAIN j.f
                   THEN j.f["RemoteException"] ELSE EmptyDict
         IN IF re.t # "obj" THEN resp.body.text
            ELSE IF "message" \in DOMAIN re.f
                 THEN PyStr(re.f["message"]) ELSE "Unknown error"

\* the body is looked at first: an undecodable body is reported as such
_handle_http_error_body_first(resp) ==
    IF resp.body.json.t = "invalid"
    THEN Raise("Exception", "Hadoop API Error: " \o resp.body.text, resp.status)
    ELSE IF resp.status = 404
    THEN Raise("HDFSNotFoundError", "Requested path not found: " \o error_msg(resp), 404)
    ELSE IF resp.status = 409
    THEN Raise("HDFSConflictError", "Path already exists: " \o error_msg(resp), 409)
    ELSE Raise("Exception", "Hadoop API Error: " \o error_msg(resp), resp.status)

\* a handler that only raises for the two statuses it names
_handle_http_error_named_only(resp) ==
    IF resp.status = 404
    THEN Raise("HDFSNotFoundError", "Requested path not found: " \o error_msg(resp), 404)
    ELSE IF resp.status = 409
    THEN Raise("HDFSConflictError", "Path already exists: " \o error_msg(resp), 409)
    ELSE Return(None)

_handle_http_error(resp) ==
    IF resp.status = 404
    THEN Raise("HDFSNotFoundError", "Requested path not found: " \o error_msg(resp), 404)
    ELSE IF resp.status = 409
    THEN Raise("HDFSConflictError", "Path already exists: " \o error_msg(resp), 409)
    ELSE Raise("Exception", "Hadoop API Error: " \o error_msg(resp), resp.status)

(* ------------------------------------------------------------------ *)
(* HadoopAPIClient._parse_file_status                                  *)
(* ------------------------------------------------------------------ *)
PyVal(j) == IF j.t = "num" THEN j.n ELSE IF j.t = "str" THEN j.s ELSE None

StatusKeys == {"length", "blockSize", "replication", "type"}

\* file_size is read from blockSize
_parse_file_status_blocksize(status_data, hdfs_path) ==
    [hdfs_path |-> hdfs_path,
     file_size |-> PyVal(status_data.f["blockSize"]),
     block_size |-> PyVal(status_data.f["blockSize"]),
     replication |-> PyVal(status_data.f["replication"]),
     type |-> PyVal(status_data.f["type"])]

_parse_file_status(status_data, hdfs_path) ==
    [hdfs_path |-> hdfs_path,
     file_size |-> PyVal(status_data.f["length"]),
     block_size |-> PyVal(status_data.f["blockSize"]),
     replication |-> PyVal(status_data.f["replication"]),
     type |-> PyVal(status_data.f["type"])]

\* resp.json()["FileStatus"] followed by _parse_file_status: the descriptor, or
\* the exception of the first step that fails
parsed_status(resp, hdfs_path) ==
    LET j == resp.body.json IN
    IF j.t = "invalid" THEN Raise("JSONDecodeError", resp.body.text, 0)
    ELSE IF j.t # "obj" THEN Raise("TypeError", "FileStatus", 0)
    ELSE IF "FileStatus" \notin DOMAIN j.f THEN Raise("KeyError", "FileStatus", 0)
    ELSE IF j.f["FileStatus"].t # "obj" THEN Raise("TypeError", "length", 0)
    ELSE IF ~ (StatusKeys \subseteq DOMAIN j.f["FileStatus"].f)
         THEN Raise("KeyError", "length", 0)
    ELSE Return(_parse_file_status(j.f["FileStatus"], hdfs_path))

(* ------------------------------------------------------------------ *)
(* state                                                               *)
(* ------------------------------------------------------------------ *)
VARIABLES
    base_url,       \* self.base_url
    common_params,  \* self.common_params
    pc,             \* per call: the await it is suspended at
    args,           \* per call: the operation and its arguments
    sent,           \* per call: the requests it has handed to self.client, in order
    create_resp,    \* per upload_file call: create_resp
    upload_url,     \* per upload_file call: upload_url
    recv,           \* per call: the answers it has received; recv[i] answers sent[i]
    outcome,        \* per call: what the caller got
    hdfs,           \* the backend: what each path of the namespace holds
    before,         \* per call: the namespace when the call was made
    client,         \* per instance a caller makes: self.client, the httpx.AsyncClient
    scope,          \* per instance a caller makes: the code that made it
    cache           \* api_key_validator.cache

vars == <<base_url, common_params, pc, args, sent, recv, create_resp, upload_url, outcome,
          hdfs, before, client, scope, cache>>

config == <<base_url, common_params>>

backend == <<hdfs, before>>

\* the instances callers make, and what is kept outside the client
Instances == {"i1", "i2"}

elsewhere == <<client, scope, cache>>

\* what the client and its backend keep
hadoop == <<config, pc, args, sent, recv, create_resp, upload_url, outcome, backend>>

\* a request as handed to httpx: client.<method>(url, params=, content=, headers=,
\* follow_redirects=); the url is the base followed by the characters of the path
Request(method, url, params, content, headers, follow_redirects) ==
    [method |-> method, url |-> url, params |-> params, content |-> content,
     headers |-> headers, follow_redirects |-> follow_redirects]

\* f"{self.base_url}{hdfs_path}"
Url(path) == <<base_url>> \o path

NoArgs == [op |-> None]

Init ==
    /\ base_url = "http://" \o HADOOP_HOST \o ":" \o ToString(HADOOP_PORT) \o "/webhdfs/v1"
    /\ common_params = ("user.name" :> HADOOP_USER)
    /\ pc = [c \in Calls |-> "idle"]
    /\ args = [c \in Calls |-> NoArgs]
    /\ sent = [c \in Calls |-> <<>>]
    /\ create_resp = [c \in Calls |-> NoResponse]
    /\ upload_url = [c \in Calls |-> None]
    /\ recv = [c \in Calls |-> <<>>]
    /\ outcome = [c \in Calls |-> Pending]
    /\ hdfs = [p \in FsPaths |-> Absent]
    /\ before = [c \in Calls |-> hdfs]
    /\ client = [i \in Instances |-> None]
    /\ scope = [i \in Instances |-> None]
    /\ cache = <<>>

\* no coroutine runs in the slot c
Free(c) == pc[c] \in {"idle", "done"}

\* a caller enters a coroutine: a fresh frame, run up to its first await
Enter(c, a, request, at) ==
    /\ pc' = [pc EXCEPT ![c] = at]
    /\ args' = [args EXCEPT ![c] = a]
    /\ sent' = [sent EXCEPT ![c] = <<request>>]
    /\ create_resp' = [create_resp EXCEPT ![c] = NoResponse]
    /\ upload_url' = [upload_url EXCEPT ![c] = None]
    /\ recv' = [recv EXCEPT ![c] = <<>>]
    /\ outcome' = [outcome EXCEPT ![c] = Pending]
    /\ UNCHANGED config

\* the call ends: it returns or raises to its caller
Finish(c, o) ==
    /\ pc' = [pc EXCEPT ![c] = "done"]
    /\ outcome' = [outcome EXCEPT ![c] = o]

\* the call hands the next request to self.client and is suspended at `at`
Send(c, request, at) ==
    /\ pc' = [pc EXCEPT ![c] = at]
    /\ sent' = [sent EXCEPT ![c] = Append(@, request)]

(* ------------------------------------------------------------------ *)
(* HadoopAPIClient.get_file_status                                     *)
(* ------------------------------------------------------------------ *)
StatusRequest(hdfs_path) ==
    Request("GET", Url(hdfs_path),
            [op |-> "GETFILESTATUS"] @@ ("user.name" :> HADOOP_USER),
            None, <<>>, FALSE)

\* the call up to its await of client.get
get_file_status(c, hdfs_path) ==
    /\ Free(c)
    /\ Enter(c, [op |-> "get_file_status", hdfs_path |-> hdfs_path],
             StatusRequest(hdfs_path), "status")

\* an error answer is logged and swallowed: the call returns None
status_outcome_swallow(r, hdfs_path) ==
    IF r.transport # "ok" THEN TransportError(r)
    ELSE IF ~ is_success(r) THEN Return(None)
    ELSE parsed_status(r, hdfs_path)

\* what get_file_status returns or raises on the answer r
status_outcome(r, hdfs_path) ==
    IF r.transport # "ok" THEN TransportError(r)
    ELSE IF ~ is_success(r) THEN _handle_http_error(r)
    ELSE parsed_status(r, hdfs_path)

\* the answer to GETFILESTATUS arrives: of a get_file_status call, or of the
\* one upload_file awaits and whose result it returns
get_file_status_resp(c, r) ==
    /\ pc[c] = "status"
    /\ recv' = [recv EXCEPT ![c] = Append(@, r)]
    /\ Finish(c, status_outcome(r, args[c].hdfs_path))
    /\ UNCHANGED <<config, args, sent, create_resp, upload_url>>

(* ------------------------------------------------------------------ *)
(* HadoopAPIClient.upload_file                                         *)
(* ------------------------------------------------------------------ *)
CreateParams(a) ==
    [op |-> "CREATE",
     overwrite |-> BoolStr(a.overwrite),
     blocksize |-> ToString(a.blocksize),
     replication |-> ToString(a.replication),
     permission |-> a.permission,
     buffersize |-> ToString(a.buffersize),
     noredirect |-> BoolStr(a.noredirect)] @@ ("user.name" :> HADOOP_USER)

CreateRequest(a) ==
    Request("PUT", Url(a.hdfs_path), CreateParams(a), None, <<>>, FALSE)

\* the payload PUT without its content
PayloadRequest_empty(url, file_content) ==
    Request("PUT", <<url>>, <<>>, <<>>,
            ("Content-Type" :> "application/octet-stream"), FALSE)

\* the payload PUT with the identity parameter repeated
PayloadRequest_identity(url, file_content) ==
    Request("PUT", <<url>>, ("user.name" :> HADOOP_USER), file_content,
            ("Content-Type" :> "application/octet-stream"), FALSE)

\* client.put(upload_url, content=file_content, headers={...}): no params
PayloadRequest(url, file_content) ==
    Request("PUT", <<url>>, <<>>, file_content,
            ("Content-Type" :> "application/octet-stream"), FALSE)

\* the call up to its await of the CREATE request
upload_file(c, hdfs_path, file_content, overwrite) ==
    /\ Free(c)
    /\ LET a == [op |-> "upload_file", hdfs_path |-> hdfs_path,
                 file_content |-> file_content, overwrite |-> overwrite,
                 blocksize |-> DEFAULT_BLOCKSIZE, replication |-> DEFAULT_REPLICATION,
                 permission |-> DEFAULT_PERMISSION, buffersize |-> DEFAULT_BUFFERSIZE,
                 noredirect |-> FALSE]
       IN Enter(c, a, CreateRequest(a), "create")

\* `if upload_url == ""`: an absent header is not caught
not_upload_url_empty(url) == url = ""

\* `if not upload_url`; the message of the Exception raised then is
\* "Hadoop 没有返回有效的上传 URL", written in ASCII below
not_upload_url(url) == url = None \/ url = ""

\* upload_file_create with one retry of the control request after a transport error
upload_file_create_retry(c, r) ==
    /\ pc[c] = "create"
    /\ recv' = [recv EXCEPT ![c] = Append(@, r)]
    /\ IF r.transport # "ok"
       THEN /\ IF Len(sent[c]) < 2
               THEN /\ Send(c, CreateRequest(args[c]), "create")
                    /\ UNCHANGED outcome
               ELSE /\ Finish(c, TransportError(r))
                    /\ UNCHANGED sent
            /\ UNCHANGED <<create_resp, upload_url>>
       ELSE /\ create_resp' = [create_resp EXCEPT ![c] = r]
            /\ IF r.status = 307
               THEN LET url == HeadersGet(r.headers, "Location") IN
                    /\ upload_url' = [upload_url EXCEPT ![c] = url]
                    /\ IF not_upload_url(url)
                       THEN /\ Finish(c, Raise("Exception", "Hadoop returned no valid upload URL", 0))
                            /\ UNCHANGED sent
                       ELSE /\ Send(c, PayloadRequest(url, args[c].file_content), "put")
                            /\ UNCHANGED outcome
               ELSE /\ UNCHANGED upload_url
                    /\ IF ~ is_success(r)
                       THEN /\ Finish(c, HTTPStatusError(r))
                            /\ UNCHANGED sent
                       ELSE /\ Send(c, StatusRequest(args[c].hdfs_path), "status")
                            /\ UNCHANGED outcome
    /\ UNCHANGED <<config, args>>

\* the answer to CREATE arrives; the call runs to its next await or to its end
upload_file_create(c, r) ==
    /\ pc[c] = "create"
    /\ recv' = [recv EXCEPT ![c] = Append(@, r)]
    /\ IF r.transport # "ok"
       THEN /\ Finish(c, TransportError(r))
            /\ UNCHANGED <<sent, create_resp, upload_url>>
       ELSE /\ create_resp' = [create_resp EXCEPT ![c] = r]
            /\ IF r.status = 307
               THEN LET url == HeadersGet(r.headers, "Location") IN
                    /\ upload_url' = [upload_url EXCEPT ![c] = url]
                    /\ IF not_upload_url(url)
                       THEN /\ Finish(c, Raise("Exception", "Hadoop returned no valid upload URL", 0))
                            /\ UNCHANGED sent
                       ELSE /\ Send(c, PayloadRequest(url, args[c].file_content), "put")
                            /\ UNCHANGED outcome
               ELSE /\ UNCHANGED upload_url
                    /\ IF ~ is_success(r)
                       THEN /\ Finish(c, HTTPStatusError(r))
                            /\ UNCHANGED sent
                       ELSE /\ Send(c, StatusRequest(args[c].hdfs_path), "status")
                            /\ UNCHANGED outcome
    /\ UNCHANGED <<config, args>>

\* a payload PUT the data node refuses sends the call back to the control
\* request, once
upload_file_put_renegotiate(c, r) ==
    /\ pc[c] = "put"
    /\ recv' = [recv EXCEPT ![c] = Append(@, r)]
    /\ IF r.transport # "ok"
       THEN /\ Finish(c, TransportError(r))
            /\ UNCHANGED sent
       ELSE IF ~ is_success(r)
       THEN IF Len(sent[c]) < 4
            THEN /\ Send(c, CreateRequest(args[c]), "create")
                 /\ UNCHANGED outcome
            ELSE /\ Finish(c, HTTPStatusError(r))
                 /\ UNCHANGED sent
       ELSE /\ Send(c, StatusRequest(args[c].hdfs_path), "status")
            /\ UNCHANGED outcome
    /\ UNCHANGED <<config, args, create_resp, upload_url>>

\* the path of the session is kept on the client: the status query names the
\* path of the upload that another call has in flight
upload_file_put_shared(c, r) ==
    /\ pc[c] = "put"
    /\ recv' = [recv EXCEPT ![c] = Append(@, r)]
    /\ IF r.transport # "ok"
       THEN /\ Finish(c, TransportError(r))
            /\ UNCHANGED sent
       ELSE IF ~ is_success(r)
       THEN /\ Finish(c, HTTPStatusError(r))
            /\ UNCHANGED sent
       ELSE LET others == { d \in Calls \ {c} :
                             args[d].op = "upload_file" /\ pc[d] \notin {"idle", "done"} }
                owner == IF others = {} THEN c ELSE CHOOSE d \in others : TRUE
            IN /\ Send(c, StatusRequest(args[owner].hdfs_path), "status")
               /\ UNCHANGED outcome
    /\ UNCHANGED <<config, args, create_resp, upload_url>>

\* upload_file_put going on to the status query when the PUT got no response
upload_file_put_continue(c, r) ==
    /\ pc[c] = "put"
    /\ recv' = [recv EXCEPT ![c] = Append(@, r)]
    /\ IF r.transport = "ok" /\ ~ is_success(r)
       THEN /\ Finish(c, HTTPStatusError(r))
            /\ UNCHANGED sent
       ELSE /\ Send(c, StatusRequest(args[c].hdfs_path), "status")
            /\ UNCHANGED outcome
    /\ UNCHANGED <<config, args, create_resp, upload_url>>

\* the data node's answer to the payload PUT arrives
upload_file_put(c, r) ==
    /\ pc[c] = "put"
    /\ recv' = [recv EXCEPT ![c] = Append(@, r)]
    /\ IF r.transport # "ok"
       THEN /\ Finish(c, TransportError(r))
            /\ UNCHANGED sent
       ELSE IF ~ is_success(r)
       THEN /\ Finish(c, HTTPStatusError(r))
            /\ UNCHANGED sent
       ELSE /\ Send(c, StatusRequest(args[c].hdfs_path), "status")
            /\ UNCHANGED outcome
    /\ UNCHANGED <<config, args, create_resp, upload_url>>

(* ------------------------------------------------------------------ *)
(* the operations of one request: what each returns or raises on the   *)
(* answer r when a non-2xx answer goes to _handle_http_error           *)
(* ------------------------------------------------------------------ *)
\* {**self.common_params, ...}
WithCommon(params) == params @@ common_params

\* the call is suspended at the one request of the operation op
Awaits(c, op) == pc[c] = "request" /\ args[c].op = op

\* the answer to the one request of a call arrives and the call ends
OneResp(c, r, o) ==
    /\ recv' = [recv EXCEPT ![c] = Append(@, r)]
    /\ Finish(c, o)
    /\ UNCHANGED <<config, args, sent, create_resp, upload_url>>

(* HadoopAPIClient.download_file *)
download_file(c, hdfs_path) ==
    /\ Free(c)
    /\ Enter(c, [op |-> "download_file", hdfs_path |-> hdfs_path],
             Request("GET", Url(hdfs_path), WithCommon([op |-> "OPEN"]), None, <<>>, TRUE),
             "request")

\* the status of the answer is not looked at: resp.content is returned
download_outcome_unchecked(r) ==
    IF r.transport # "ok" THEN TransportError(r)
    ELSE Return(r.content)

\* resp.text is returned: the bytes decoded, an undecodable byte replaced by U+FFFD
download_outcome_text(r) ==
    IF r.transport # "ok" THEN TransportError(r)
    ELSE IF ~ is_success(r) THEN _handle_http_error(r)
    ELSE Return([i \in DOMAIN r.content |->
                    IF r.content[i] > 127 THEN 65533 ELSE r.content[i]])

download_outcome(r) ==
    IF r.transport # "ok" THEN TransportError(r)
    ELSE IF ~ is_success(r) THEN _handle_http_error(r)
    ELSE Return(r.content)

download_file_resp(c, r) ==
    /\ Awaits(c, "download_file")
    /\ OneResp(c, r, download_outcome(r))

(* HadoopAPIClient.delete_path *)
\* the recursive argument is not passed on: the request always says "false"
delete_path_flat(c, hdfs_path, recursive) ==
    /\ Free(c)
    /\ Enter(c, [op |-> "delete_path", hdfs_path |-> hdfs_path, recursive |-> recursive],
             Request("DELETE", Url(hdfs_path),
                     WithCommon([op |-> "DELETE", recursive |-> "false"]),
                     None, <<>>, FALSE),
             "request")

delete_path(c, hdfs_path, recursive) ==
    /\ Free(c)
    /\ Enter(c, [op |-> "delete_path", hdfs_path |-> hdfs_path, recursive |-> recursive],
             Request("DELETE", Url(hdfs_path),
                     WithCommon([op |-> "DELETE", recursive |-> BoolStr(recursive)]),
                     None, <<>>, FALSE),
             "request")

\* delete_path, mkdir and rename_path return None on every 2xx answer
none_outcome(r) ==
    IF r.transport # "ok" THEN TransportError(r)
    ELSE IF ~ is_success(r) THEN _handle_http_error(r)
    ELSE Return(None)

delete_path_resp(c, r) ==
    /\ Awaits(c, "delete_path")
    /\ OneResp(c, r, none_outcome(r))

(* HadoopAPIClient.mkdir *)
\* the request is a CREATE that does not overwrite
MkdirParams_create(permission) ==
    WithCommon([op |-> "CREATE", overwrite |-> "false"])

\* `if permission: params["permission"] = permission`
MkdirParams(permission) ==
    IF permission = None \/ permission = ""
    THEN WithCommon([op |-> "MKDIRS"])
    ELSE [permission |-> permission] @@ WithCommon([op |-> "MKDIRS"])

\* `params = self.common_params` without the copy: op and permission are
\* written into the dict of the instance
mkdir_alias(c, hdfs_path, permission) ==
    /\ Free(c)
    /\ pc' = [pc EXCEPT ![c] = "request"]
    /\ args' = [args EXCEPT ![c] = [op |-> "mkdir", hdfs_path |-> hdfs_path,
                                     permission |-> permission]]
    /\ sent' = [sent EXCEPT ![c] =
                   <<Request("PUT", Url(hdfs_path), MkdirParams(permission), None, <<>>, FALSE)>>]
    /\ create_resp' = [create_resp EXCEPT ![c] = NoResponse]
    /\ upload_url' = [upload_url EXCEPT ![c] = None]
    /\ recv' = [recv EXCEPT ![c] = <<>>]
    /\ outcome' = [outcome EXCEPT ![c] = Pending]
    /\ common_params' = MkdirParams(permission)
    /\ UNCHANGED base_url

mkdir(c, hdfs_path, permission) ==
    /\ Free(c)
    /\ Enter(c, [op |-> "mkdir", hdfs_path |-> hdfs_path, permission |-> permission],
             Request("PUT", Url(hdfs_path), MkdirParams(permission), None, <<>>, FALSE),
             "request")

mkdir_resp(c, r) ==
    /\ Awaits(c, "mkdir")
    /\ OneResp(c, r, none_outcome(r))

(* HadoopAPIClient.rename_path *)
rename_path(c, src_path, dest_path) ==
    /\ Free(c)
    /\ Enter(c, [op |-> "rename_path", src_path |-> src_path, dest_path |-> dest_path],
             Request("PUT", Url(src_path),
                     WithCommon([op |-> "RENAME", destination |-> dest_path]),
                     None, <<>>, FALSE),
             "request")

rename_path_resp(c, r) ==
    /\ Awaits(c, "rename_path")
    /\ OneResp(c, r, none_outcome(r))

(* HadoopAPIClient.list_dir *)
list_dir(c, hdfs_path) ==
    /\ Free(c)
    /\ Enter(c, [op |-> "list_dir", hdfs_path |-> hdfs_path],
             Request("GET", Url(hdfs_path),
                     [op |-> "LISTSTATUS"] @@ ("user.name" :> HADOOP_USER),
                     None, <<>>, FALSE),
             "request")

ChildKeys == {"pathSuffix", "type", "length"}

\* one element of the list comprehension
list_entry(hdfs_path, f) ==
    [path |-> hdfs_path \o <<"/">> \o PyVal(f.f["pathSuffix"]),
     type |-> PyVal(f.f["type"]),
     size |-> PyVal(f.f["length"])]

\* the comprehension runs over the list from its end
parsed_list_reversed(r, hdfs_path) ==
    LET j == r.body.json IN
    IF j.t = "invalid" THEN Raise("JSONDecodeError", r.body.text, 0)
    ELSE IF j.t # "obj" THEN Raise("TypeError", "FileStatuses", 0)
    ELSE IF "FileStatuses" \notin DOMAIN j.f THEN Raise("KeyError", "FileStatuses", 0)
    ELSE LET fs == j.f["FileStatuses"] IN
         IF fs.t # "obj" THEN Raise("TypeError", "FileStatus", 0)
         ELSE IF "FileStatus" \notin DOMAIN fs.f THEN Raise("KeyError", "FileStatus", 0)
         ELSE LET file_list == fs.f["FileStatus"] IN
              IF file_list.t # "arr" THEN Raise("TypeError", "file_list", 0)
              ELSE IF \E i \in DOMAIN file_list.a :
                         \/ file_list.a[i].t # "obj"
                         \/ ~ (ChildKeys \subseteq DOMAIN file_list.a[i].f)
                   THEN Raise("KeyError", "pathSuffix", 0)
              ELSE Return([i \in DOMAIN file_list.a |->
                             list_entry(hdfs_path,
                                        file_list.a[Len(file_list.a) + 1 - i])])

\* resp.json()["FileStatuses"]["FileStatus"] and the comprehension over it
parsed_list(r, hdfs_path) ==
    LET j == r.body.json IN
    IF j.t = "invalid" THEN Raise("JSONDecodeError", r.body.text, 0)
    ELSE IF j.t # "obj" THEN Raise("TypeError", "FileStatuses", 0)
    ELSE IF "FileStatuses" \notin DOMAIN j.f THEN Raise("KeyError", "FileStatuses", 0)
    ELSE LET fs == j.f["FileStatuses"] IN
         IF fs.t # "obj" THEN Raise("TypeError", "FileStatus", 0)
         ELSE IF "FileStatus" \notin DOMAIN fs.f THEN Raise("KeyError", "FileStatus", 0)
         ELSE LET file_list == fs.f["FileStatus"] IN
              IF file_list.t # "arr" THEN Raise("TypeError", "file_list", 0)
              ELSE IF \E i \in DOMAIN file_list.a :
                         \/ file_list.a[i].t # "obj"
                         \/ ~ (ChildKeys \subseteq DOMAIN file_list.a[i].f)
                   THEN Raise("KeyError", "pathSuffix", 0)
              ELSE Return([i \in DOMAIN file_list.a |->
                             list_entry(hdfs_path, file_list.a[i])])

list_outcome(r, hdfs_path) ==
    IF r.transport # "ok" THEN TransportError(r)
    ELSE IF ~ is_success(r) THEN _handle_http_error(r)
    ELSE parsed_list(r, hdfs_path)

list_dir_resp(c, r) ==
    /\ Awaits(c, "list_dir")
    /\ OneResp(c, r, list_outcome(r, args[c].hdfs_path))

(* HadoopAPIClient.check_connection *)
check_connection(c) ==
    /\ Free(c)
    /\ Enter(c, [op |-> "check_connection"],
             Request("GET", <<base_url>>, WithCommon([op |-> "GETHOMEDIRECTORY"]),
                     None, <<>>, FALSE),
             "request")

\* both except clauses log and re-raise; the success log formats resp.json()
connection_outcome(r) ==
    IF r.transport # "ok" THEN TransportError(r)
    ELSE IF ~ is_success(r) THEN HTTPStatusError(r)
    ELSE IF r.body.json.t = "invalid" THEN Raise("JSONDecodeError", r.body.text, 0)
    ELSE Return(None)

check_connection_resp(c, r) ==
    /\ Awaits(c, "check_connection")
    /\ OneResp(c, r, connection_outcome(r))

(* ------------------------------------------------------------------ *)
(* the client used by a caller that awaits each call: a request gets   *)
(* any answer a backend can give, or none; the namespace is not looked *)
(* at and stays as it is                                               *)
(* ------------------------------------------------------------------ *)
Next ==
    \E c \in Awaited :
        \/ \E p \in Paths, b \in Contents, o \in BOOLEAN : upload_file(c, p, b, o) /\ UNCHANGED <<backend, elsewhere>>
        \/ \E r \in CreateReplies : upload_file_create(c, r) /\ UNCHANGED <<backend, elsewhere>>
        \/ \E r \in PutReplies : upload_file_put(c, r) /\ UNCHANGED <<backend, elsewhere>>
        \/ \E p \in Paths : get_file_status(c, p) /\ UNCHANGED <<backend, elsewhere>>
        \/ \E r \in StatusReplies : get_file_status_resp(c, r) /\ UNCHANGED <<backend, elsewhere>>
        \/ \E p \in Paths : download_file(c, p) /\ UNCHANGED <<backend, elsewhere>>
        \/ \E r \in OpenReplies : download_file_resp(c, r) /\ UNCHANGED <<backend, elsewhere>>
        \/ \E p \in Paths, rec \in BOOLEAN : delete_path(c, p, rec) /\ UNCHANGED <<backend, elsewhere>>
        \/ \E r \in BooleanReplies : delete_path_resp(c, r) /\ UNCHANGED <<backend, elsewhere>>
        \/ \E p \in Paths, perm \in Permissions : mkdir(c, p, perm) /\ UNCHANGED <<backend, elsewhere>>
        \/ \E r \in BooleanReplies : mkdir_resp(c, r) /\ UNCHANGED <<backend, elsewhere>>
        \/ \E p \in Paths, q \in Paths : rename_path(c, p, q) /\ UNCHANGED <<backend, elsewhere>>
        \/ \E r \in BooleanReplies : rename_path_resp(c, r) /\ UNCHANGED <<backend, elsewhere>>
        \/ \E p \in Paths : list_dir(c, p) /\ UNCHANGED <<backend, elsewhere>>
        \/ \E r \in ListReplies : list_dir_resp(c, r) /\ UNCHANGED <<backend, elsewhere>>
        \/ check_connection(c) /\ UNCHANGED <<backend, elsewhere>>
        \/ \E r \in HomeReplies : check_connection_resp(c, r) /\ UNCHANGED <<backend, elsewhere>>

Spec == Init /\ [][Next]_vars

(* ------------------------------------------------------------------ *)
(* vocabulary of the properties                                        *)
(* ------------------------------------------------------------------ *)
\* the exception classes that carry the error kinds: the client defines two
\* classes of its own, lets httpx's transport errors through, and raises the
\* builtin Exception for everything else
NOT_FOUND == "HDFSNotFoundError"
CONFLICT == "HDFSConflictError"
TRANSPORT == "httpx.TransportError"
PROTOCOL == "Exception"
UNKNOWN == "Exception"

IsUpload(c) == args[c].op = "upload_file"
Answered(r) == r.transport = "ok"
Returned(c) == outcome[c].kind = "return"
Raised(c) == outcome[c].kind = "raise"
RaisedKind(c, cls) == Raised(c) /\ outcome[c].cls = cls

OpOf(q) == IF "op" \in DOMAIN q.params THEN q.params["op"] ELSE None
\* the requests of a call that go to the control node, by operation
Ops(c, op) == { i \in DOMAIN sent[c] : sent[c][i].url[1] = base_url /\ OpOf(sent[c][i]) = op }
\* the requests of a call that go anywhere else
Payloads(c) == { i \in DOMAIN sent[c] : sent[c][i].url[1] # base_url }
LastSent(c) == sent[c][Len(sent[c])]
\* the answer to the last request of a call that has none outstanding
LastRecv(c) == recv[c][Len(sent[c])]

\* the control response of an upload is a 307 with a usable Location
Redirected(c) ==
    /\ IsUpload(c) /\ Answered(create_resp[c]) /\ create_resp[c].status = 307
    /\ "Location" \in DOMAIN create_resp[c].headers
    /\ create_resp[c].headers["Location"] # ""
\* the control response of an upload is a 2xx
Immediate(c) ==
    IsUpload(c) /\ Answered(create_resp[c]) /\ create_resp[c].status \in 200..299

(* ------------------------------------------------------------------ *)
(* the WebHDFS backend the client is written against: what the name    *)
(* node and the data node answer to a request, and what the request    *)
(* does to the namespace                                               *)
(* ------------------------------------------------------------------ *)
LastSlash(p) ==
    CHOOSE i \in 1..Len(p) : p[i] = "/" /\ \A j \in (i + 1)..Len(p) : p[j] # "/"
\* the directory a path is in, and its name there
ParentOf(p) == IF LastSlash(p) = 1 THEN Root ELSE SubSeq(p, 1, LastSlash(p) - 1)
NameOf(p) == SubSeq(p, LastSlash(p) + 1, Len(p))

\* q is p or lies below p
Under(p, q) ==
    \/ p = Root
    \/ /\ Len(q) >= Len(p) /\ SubSeq(q, 1, Len(p)) = p
       /\ (Len(q) = Len(p) \/ q[Len(p) + 1] = "/")

Entry(ns, p) == IF p = Root THEN Directory ELSE IF p \in FsPaths THEN ns[p] ELSE Absent
Exists(ns, p) == Entry(ns, p).type # "ABSENT"
IsDir(ns, p) == Entry(ns, p).type = "DIRECTORY"
IsFile(ns, p) == Entry(ns, p).type = "FILE"

\* the immediate children of p, in the order of their names
ChildrenOf(ns, p) ==
    SelectSeq(FsOrder, LAMBDA q : ParentOf(q) = p /\ Exists(ns, q))

\* a file lies on the way to p: nothing can be created at p
Blocked(ns, p) == \E q \in FsPaths : q # p /\ Under(q, p) /\ IsFile(ns, q)

\* the namespace with p a directory, and every directory on the way to it
WithDirs(ns, p) == [q \in FsPaths |-> IF Under(q, p) THEN Directory ELSE ns[q]]
\* the namespace with the file p holding b
WithFile(ns, p, b) ==
    [q \in FsPaths |-> IF q = p THEN File(b)
                       ELSE IF Under(q, p) THEN Directory ELSE ns[q]]
\* the namespace without p and what lies below it
Without(ns, p) == [q \in FsPaths |-> IF Under(p, q) THEN Absent ELSE ns[q]]
\* where q, below src, lies once src is named dst
Moved(src, dst, q) == dst \o SubSeq(q, Len(src) + 1, Len(q))
\* the namespace with src, and what lies below it, named dst
Renamed(ns, src, dst) ==
    [q \in FsPaths |->
        IF Under(dst, q) THEN Entry(ns, src \o SubSeq(q, Len(dst) + 1, Len(q)))
        ELSE IF Under(src, q) THEN Absent ELSE ns[q]]
\* the rename keeps what lies below src within the paths of the model
Representable(ns, src, dst) ==
    \A q \in FsPaths : (Under(src, q) /\ Exists(ns, q)) => Moved(src, dst, q) \in FsPaths

\* {"RemoteException": {"message": "File does not exist"}}
BodyFileNotFound ==
    Body("{RemoteException:{message:File does not exist}}",
         JObj([RemoteException |-> JObj([message |-> JStr("File does not exist")])]))

\* the characters of a path as one string
RECURSIVE PathStr(_)
PathStr(p) == IF p = <<>> THEN "" ELSE Head(p) \o PathStr(Tail(p))

\* the data node URL the name node redirects a CREATE of p to
LocationOf(p) ==
    "http://dn1:9864/webhdfs/v1" \o PathStr(p) \o "?op=CREATE&user.name=" \o HADOOP_USER

\* an answer, and the namespace the request leaves
Served(reply, ns) == [reply |-> reply, ns |-> ns]
NotFound(ns) == Served(Reply(404, <<>>, BodyFileNotFound, <<>>), ns)
Exist(ns) == Served(Reply(409, <<>>, BodyRemote, <<>>), ns)
Boolean(b, ns) == Served(Reply(200, <<>>, BodyBoolean(b), <<>>), ns)

GETFILESTATUS(ns, p) ==
    IF Exists(ns, p)
    THEN Served(Reply(200, <<>>,
                      BodyFileStatus(Len(Entry(ns, p).content), Entry(ns, p).type), <<>>), ns)
    ELSE NotFound(ns)

\* the client follows the redirect to the data node: the answer is the content
OPEN(ns, p) ==
    IF IsFile(ns, p)
    THEN Served(Reply(200, <<>>, BodyEmpty, Entry(ns, p).content), ns)
    ELSE NotFound(ns)

\* a directory answers with its children; a file answers with its own status
\* under the empty pathSuffix
LISTSTATUS(ns, p) ==
    IF IsDir(ns, p)
    THEN Served(Reply(200, <<>>,
                      BodyFileStatuses(
                          [i \in DOMAIN ChildrenOf(ns, p) |->
                              LET q == ChildrenOf(ns, p)[i] IN
                              Child(NameOf(q), ns[q].type, Len(ns[q].content))]),
                      <<>>), ns)
    ELSE IF IsFile(ns, p)
    THEN Served(Reply(200, <<>>,
                      BodyFileStatuses(<< Child(<<>>, "FILE", Len(Entry(ns, p).content)) >>),
                      <<>>), ns)
    ELSE NotFound(ns)

\* creates the directory and the missing directories on the way; an existing
\* directory is left as it is
MKDIRS(ns, p) ==
    IF IsFile(ns, p) \/ Blocked(ns, p) THEN Exist(ns)
    ELSE Boolean(TRUE, WithDirs(ns, p))

\* false, with a 200, when there is nothing to delete
DELETE(ns, p, recursive) ==
    IF ~ Exists(ns, p) THEN Boolean(FALSE, ns)
    ELSE IF ChildrenOf(ns, p) # <<>> /\ recursive # "true"
    THEN Served(Reply(403, <<>>, BodyRemote, <<>>), ns)
    ELSE Boolean(TRUE, Without(ns, p))

\* false, with a 200, when the rename was not performed: no source, a
\* destination that exists or has no directory to be in, or lies below the source
RENAME(ns, src, dst) ==
    IF /\ Exists(ns, src) /\ ~ Exists(ns, dst)
       /\ IsDir(ns, ParentOf(dst)) /\ ~ Under(src, dst)
    THEN Boolean(TRUE, Renamed(ns, src, dst))
    ELSE Boolean(FALSE, ns)

\* the name node: a redirect to the data node, nothing written yet
CREATE(ns, p, overwrite) ==
    IF IsDir(ns, p) \/ Blocked(ns, p) \/ (IsFile(ns, p) /\ overwrite # "true")
    THEN Exist(ns)
    ELSE Served(Reply(307, [Location |-> LocationOf(p)], BodyEmpty, <<>>), ns)

\* the data node: the content is written
WRITE(ns, p, content) ==
    IF IsDir(ns, p) \/ Blocked(ns, p)
    THEN Served(Reply(403, <<>>, BodyRemote, <<>>), ns)
    ELSE Served(Reply(201, <<>>, BodyEmpty, <<>>), WithFile(ns, p, content))

GETHOMEDIRECTORY(ns) == Served(Reply(200, <<>>, BodyOtherDict, <<>>), ns)

\* the answer to the request q and the namespace it leaves
Backend(ns, q) ==
    IF q.url[1] # base_url
    THEN WRITE(ns, CHOOSE p \in FsPaths : LocationOf(p) = q.url[1], q.content)
    ELSE LET p == Tail(q.url) IN
         CASE OpOf(q) = "GETFILESTATUS" -> GETFILESTATUS(ns, p)
           [] OpOf(q) = "OPEN" -> OPEN(ns, p)
           [] OpOf(q) = "LISTSTATUS" -> LISTSTATUS(ns, p)
           [] OpOf(q) = "MKDIRS" -> MKDIRS(ns, p)
           [] OpOf(q) = "DELETE" -> DELETE(ns, p, q.params["recursive"])
           [] OpOf(q) = "RENAME" -> RENAME(ns, p, q.params["destination"])
           [] OpOf(q) = "CREATE" -> CREATE(ns, p, q.params["overwrite"])
           [] OTHER -> GETHOMEDIRECTORY(ns)

\* the paths a caller names: the root is read, never written
ReadPaths == FsPaths \cup {Root}

\* a call is made: the namespace is as it was
Called(c) == before' = [before EXCEPT ![c] = hdfs] /\ UNCHANGED <<hdfs, elsewhere>>
\* the request of the call c is served
Serves(c, s) == hdfs' = s.ns /\ UNCHANGED <<before, elsewhere>>
Answer(c) == Backend(hdfs, LastSent(c))

served_create(c) ==
    /\ pc[c] = "create"
    /\ upload_file_create(c, Answer(c).reply)
    /\ Serves(c, Answer(c))

served_put(c) ==
    /\ pc[c] = "put"
    /\ upload_file_put(c, Answer(c).reply)
    /\ Serves(c, Answer(c))

served_status(c) ==
    /\ pc[c] = "status"
    /\ get_file_status_resp(c, Answer(c).reply)
    /\ Serves(c, Answer(c))

served_download(c) ==
    /\ Awaits(c, "download_file")
    /\ download_file_resp(c, Answer(c).reply)
    /\ Serves(c, Answer(c))

served_delete(c) ==
    /\ Awaits(c, "delete_path")
    /\ delete_path_resp(c, Answer(c).reply)
    /\ Serves(c, Answer(c))

served_mkdir(c) ==
    /\ Awaits(c, "mkdir")
    /\ mkdir_resp(c, Answer(c).reply)
    /\ Serves(c, Answer(c))

served_rename(c) ==
    /\ Awaits(c, "rename_path")
    /\ rename_path_resp(c, Answer(c).reply)
    /\ Serves(c, Answer(c))

served_list(c) ==
    /\ Awaits(c, "list_dir")
    /\ list_dir_resp(c, Answer(c).reply)
    /\ Serves(c, Answer(c))

served_home(c) ==
    /\ Awaits(c, "check_connection")
    /\ check_connection_resp(c, Answer(c).reply)
    /\ Serves(c, Answer(c))

(* ------------------------------------------------------------------ *)
(* the client against the backend, used by a caller that awaits each   *)
(* call: every request is served as the namespace has it               *)
(* ------------------------------------------------------------------ *)
NextFS ==
    \E c \in Awaited :
        \/ \E p \in FsPaths, b \in Contents, o \in BOOLEAN : upload_file(c, p, b, o) /\ Called(c)
        \/ served_create(c)
        \/ served_put(c)
        \/ \E p \in ReadPaths : get_file_status(c, p) /\ Called(c)
        \/ served_status(c)
        \/ \E p \in ReadPaths : download_file(c, p) /\ Called(c)
        \/ served_download(c)
        \/ \E p \in FsPaths, rec \in BOOLEAN : delete_path(c, p, rec) /\ Called(c)
        \/ served_delete(c)
        \/ \E p \in FsPaths, perm \in Permissions : mkdir(c, p, perm) /\ Called(c)
        \/ served_mkdir(c)
        \/ \E p \in FsPaths, q \in FsPaths :
              Representable(hdfs, p, q) /\ rename_path(c, p, q) /\ Called(c)
        \/ served_rename(c)
        \/ \E p \in ReadPaths : list_dir(c, p) /\ Called(c)
        \/ served_list(c)
        \/ check_connection(c) /\ Called(c)
        \/ served_home(c)

SpecFS == Init /\ [][NextFS]_vars

(* ------------------------------------------------------------------ *)
(* C1: upload_file returns a descriptor only after a GETFILESTATUS      *)
(* query for the same path, sent after the control request (and the    *)
(* payload PUT, if any), was answered 2xx; when that query fails the    *)
(* call raises and returns nothing.                                    *)
(* ------------------------------------------------------------------ *)
C1_ConfirmedBeforeReturn ==
    \A c \in Calls : IsUpload(c) =>
        /\ Returned(c) =>
              /\ Len(sent[c]) \in {2, 3}
              /\ LastSent(c) = StatusRequest(args[c].hdfs_path)
              /\ Ops(c, "CREATE") = {1}
              /\ Len(sent[c]) = 3 => Payloads(c) = {2}
              /\ Len(recv[c]) = Len(sent[c])
              /\ Answered(LastRecv(c)) /\ LastRecv(c).status \in 200..299
              /\ outcome[c].value.hdfs_path = args[c].hdfs_path
        /\ ( /\ pc[c] = "done"
             /\ Len(recv[c]) = Len(sent[c])
             /\ OpOf(LastSent(c)) = "GETFILESTATUS"
             /\ ~ (Answered(LastRecv(c)) /\ LastRecv(c).status \in 200..299) )
           => Raised(c)

\* an upload through a data node returned its descriptor
C1_Witness ==
    \E c \in Calls : IsUpload(c) /\ Returned(c) /\ Len(sent[c]) = 3

(* ------------------------------------------------------------------ *)
(* C2: a 307 control response without a Location header makes          *)
(* upload_file fail with the PROTOCOL error; no descriptor, no payload *)
(* PUT and no status query.                                            *)
(* ------------------------------------------------------------------ *)
C2_NoLocationIsProtocol ==
    \A c \in Calls :
        ( /\ IsUpload(c) /\ Answered(create_resp[c]) /\ create_resp[c].status = 307
          /\ "Location" \notin DOMAIN create_resp[c].headers )
        => /\ pc[c] = "done"
           /\ RaisedKind(c, PROTOCOL)
           /\ Len(sent[c]) = 1
           /\ Payloads(c) = {} /\ Ops(c, "GETFILESTATUS") = {}

C2_Witness ==
    \E c \in Calls :
        /\ IsUpload(c) /\ Answered(create_resp[c]) /\ create_resp[c].status = 307
        /\ "Location" \notin DOMAIN create_resp[c].headers
        /\ Raised(c)

(* ------------------------------------------------------------------ *)
(* C3: on a 307 with a Location, upload_file sends one PUT to exactly  *)
(* that Location with exactly the caller's bytes, after the control    *)
(* response and before the status query.                               *)
(* ------------------------------------------------------------------ *)
C3_PayloadToLocation ==
    \A c \in Calls : Redirected(c) =>
        /\ Len(sent[c]) >= 2
        /\ Ops(c, "CREATE") = {1}
        /\ sent[c][2].method = "PUT"
        /\ sent[c][2].url = << create_resp[c].headers["Location"] >>
        /\ sent[c][2].content = args[c].file_content
        /\ \A i \in Ops(c, "GETFILESTATUS") : i > 2
        /\ \A i \in DOMAIN sent[c] : i # 2 => sent[c][i].content = None

\* the status query went out after the payload PUT
C3_Witness ==
    \E c \in Calls :
        /\ Redirected(c) /\ Len(sent[c]) = 3
        /\ args[c].file_content # <<>>

(* ------------------------------------------------------------------ *)
(* C4: the payload PUT carries no identity and no protocol query       *)
(* parameter of the client's; every request to the control node        *)
(* carries an op of the protocol and the identity parameter.           *)
(* ------------------------------------------------------------------ *)
ProtocolParams == {"user.name", "op", "overwrite", "replication", "blocksize",
                   "permission", "buffersize", "noredirect"}
ControlOps == {"CREATE", "OPEN", "DELETE", "MKDIRS", "RENAME", "LISTSTATUS",
               "GETFILESTATUS", "GETHOMEDIRECTORY"}

C4_ParamsByTarget ==
    \A c \in Calls : \A i \in DOMAIN sent[c] :
        IF Redirected(c) /\ i = 2
        THEN DOMAIN sent[c][i].params \cap ProtocolParams = {}
        ELSE /\ sent[c][i].url[1] = base_url
             /\ OpOf(sent[c][i]) \in ControlOps
             /\ "user.name" \in DOMAIN sent[c][i].params
             /\ sent[c][i].params["user.name"] = HADOOP_USER

C4_Witness ==
    \E c \in Calls : Redirected(c) /\ Len(sent[c]) = 3 /\ pc[c] = "done"

(* ------------------------------------------------------------------ *)
(* C5: a 2xx control response takes the immediate branch: no payload   *)
(* PUT, the status query next; a control response that is neither 307  *)
(* nor 2xx never reaches the status query.                             *)
(* ------------------------------------------------------------------ *)
C5_ImmediateBranch ==
    \A c \in Calls :
        /\ Immediate(c) =>
              /\ Payloads(c) = {}
              /\ Len(sent[c]) = 2
              /\ sent[c][2] = StatusRequest(args[c].hdfs_path)
        /\ ( /\ IsUpload(c) /\ Answered(create_resp[c])
             /\ create_resp[c].status # 307
             /\ create_resp[c].status \notin 200..299 )
           => /\ Ops(c, "GETFILESTATUS") = {}
              /\ Len(sent[c]) = 1
              /\ pc[c] = "done" /\ Raised(c)

\* an upload without a data-node hop returned its descriptor
C5_Witness ==
    \E c \in Calls : Immediate(c) /\ Returned(c)

(* ------------------------------------------------------------------ *)
(* C6: a non-2xx, non-307 control response of an upload reaches the    *)
(* caller as the classified error of its status: CONFLICT              *)
(* (HDFSConflictError) for 409, NOT_FOUND (HDFSNotFoundError) for 404. *)
(* ------------------------------------------------------------------ *)
C6_ControlErrorClassified ==
    \A c \in Calls :
        ( /\ IsUpload(c) /\ Answered(create_resp[c])
          /\ create_resp[c].status # 307
          /\ create_resp[c].status \notin 200..299 )
        => /\ Raised(c)
           /\ outcome[c].cls \in {NOT_FOUND, CONFLICT, UNKNOWN, PROTOCOL}
           /\ create_resp[c].status = 409 => outcome[c].cls = CONFLICT
           /\ create_resp[c].status = 404 => outcome[c].cls = NOT_FOUND

(* ------------------------------------------------------------------ *)
(* C7: when the payload PUT of an upload gets no response (connection  *)
(* refused, timeout), upload_file fails with TRANSPORT, sends no       *)
(* status query and returns no descriptor.                             *)
(* ------------------------------------------------------------------ *)
C7_TransportDuringPayload ==
    \A c \in Calls :
        ( Redirected(c) /\ Len(recv[c]) >= 2 /\ ~ Answered(recv[c][2]) )
        => /\ pc[c] = "done"
           /\ RaisedKind(c, TRANSPORT)
           /\ Len(sent[c]) = 2
           /\ Ops(c, "GETFILESTATUS") = {}

C7_Witness ==
    \E c \in Calls :
        /\ Redirected(c) /\ Len(recv[c]) = 2
        /\ recv[c][2].transport = "ConnectError"
        /\ pc[c] = "done"

(* ------------------------------------------------------------------ *)
(* C8: no operation retries: an upload sends at most one control       *)
(* request, one payload PUT and one status query, every other          *)
(* operation at most one request, and the request whose answer is a    *)
(* failure is the last one of its call.                                *)
(* ------------------------------------------------------------------ *)
\* the i-th answer of a call is a failure: no response, an unusable redirect
\* of the control request, or a status that is not 2xx
Failure(c, i) ==
    LET r == recv[c][i] IN
    \/ ~ Answered(r)
    \/ /\ r.status \notin 200..299
       /\ ~ (IsUpload(c) /\ i = 1 /\ r.status = 307 /\ Redirected(c))

C8_NoRetry ==
    \A c \in Calls :
        /\ Cardinality(Ops(c, "CREATE")) <= 1
        /\ Cardinality(Payloads(c)) <= 1
        /\ Cardinality(Ops(c, "GETFILESTATUS")) <= 1
        /\ Len(sent[c]) <= 3
        /\ ~ IsUpload(c) => Len(sent[c]) <= 1
        /\ Len(recv[c]) <= Len(sent[c])
        /\ \A i \in DOMAIN recv[c] :
              Failure(c, i) => /\ i = Len(sent[c])
                               /\ pc[c] = "done"
                               /\ Raised(c)

\* the status query of an upload through a data node timed out
C8_Witness ==
    \E c \in Calls :
        /\ IsUpload(c) /\ Len(sent[c]) = 3 /\ Len(recv[c]) = 3
        /\ recv[c][3].transport = "ReadTimeout"
        /\ pc[c] = "done"

(* ------------------------------------------------------------------ *)
(* C9: the classifier decides by status before body: whatever the body *)
(* (error JSON, JSON of another shape, not JSON), 404 is NOT_FOUND and *)
(* 409 is CONFLICT, and the kind depends on nothing but the response.  *)
(* ------------------------------------------------------------------ *)
ClassifiedOps == {"OPEN", "DELETE", "MKDIRS", "RENAME", "LISTSTATUS", "GETFILESTATUS"}

\* the call ended in _handle_http_error
Classifies(c) ==
    /\ pc[c] = "done"
    /\ Len(sent[c]) >= 1 /\ Len(recv[c]) = Len(sent[c])
    /\ OpOf(LastSent(c)) \in ClassifiedOps
    /\ Answered(LastRecv(c)) /\ LastRecv(c).status \notin 200..299

C9_StatusBeforeBody ==
    /\ \A c \in Calls : Classifies(c) =>
          /\ LastRecv(c).status = 404 => RaisedKind(c, NOT_FOUND)
          /\ LastRecv(c).status = 409 => RaisedKind(c, CONFLICT)
    /\ \A st \in FailureStatuses, b1 \in ErrorBodies, b2 \in ErrorBodies :
          _handle_http_error(Reply(st, <<>>, b1, <<>>)).cls
            = _handle_http_error(Reply(st, <<>>, b2, <<>>)).cls

\* a 404 whose body is not JSON
C9_Witness ==
    \E c \in Calls :
        /\ Classifies(c) /\ LastRecv(c).status = 404
        /\ LastRecv(c).body = BodyHtml
        /\ RaisedKind(c, NOT_FOUND)

(* ------------------------------------------------------------------ *)
(* C10: 401 and 403 classify as UNAUTHORIZED, a kind of its own: the    *)
(* caller can tell it from UNKNOWN, PROTOCOL and every other kind.     *)
(* ------------------------------------------------------------------ *)
C10_UnauthorizedDistinct ==
    \A c \in Calls :
        ( Classifies(c) /\ LastRecv(c).status \in {401, 403} )
        => /\ Raised(c)
           /\ outcome[c].cls \notin {UNKNOWN, PROTOCOL, NOT_FOUND, CONFLICT, TRANSPORT}

(* ------------------------------------------------------------------ *)
(* C11: for a status other than 404, 409, 401 and 403, a JSON body     *)
(* with a RemoteException message is UNKNOWN carrying that message, a  *)
(* body that is not JSON is PROTOCOL carrying the raw text, and the    *)
(* two kinds are distinguishable.                                      *)
(* ------------------------------------------------------------------ *)
GenericStatus(c) == LastRecv(c).status \notin {404, 409, 401, 403}

\* the body is a JSON object whose RemoteException object has a message
HasRemoteMessage(b) ==
    /\ b.json.t = "obj" /\ "RemoteException" \in DOMAIN b.json.f
    /\ b.json.f["RemoteException"].t = "obj"
    /\ "message" \in DOMAIN b.json.f["RemoteException"].f
RemoteMessage(b) == PyStr(b.json.f["RemoteException"].f["message"])
NotJson(b) == b.json.t = "invalid"

C11_CarriesMessage(c) ==
    /\ HasRemoteMessage(LastRecv(c).body) =>
          /\ RaisedKind(c, UNKNOWN)
          /\ outcome[c].msg = "Hadoop API Error: " \o RemoteMessage(LastRecv(c).body)
    /\ NotJson(LastRecv(c).body) =>
          /\ RaisedKind(c, PROTOCOL)
          /\ outcome[c].msg = "Hadoop API Error: " \o LastRecv(c).body.text

Done(c, op) == pc[c] = "done" /\ args[c].op = op

C12_AbsentIsNotFound ==
    \A c \in Calls :
        ( /\ Done(c, "get_file_status") \/ Done(c, "download_file")
          /\ ~ Exists(before[c], args[c].hdfs_path) )
        => /\ LastRecv(c).status = 404
           /\ RaisedKind(c, NOT_FOUND)

\* a download of an absent path from a namespace earlier operations have filled
C12_Witness ==
    \E c \in Calls :
        /\ Done(c, "download_file")
        /\ ~ Exists(before[c], args[c].hdfs_path)
        /\ \E q \in FsPaths : IsFile(hdfs, q)
        /\ RaisedKind(c, NOT_FOUND)

(* ------------------------------------------------------------------ *)
(* C13: a successful upload_file(P, b, overwrite=true) followed, with  *)
(* no write to P in between, by download_file(P) returns exactly b,    *)
(* whether P existed before or not: the upload leaves the backend      *)
(* holding exactly b at P, and the download returns exactly what the   *)
(* backend holds at P.                                                 *)
(* ------------------------------------------------------------------ *)
C13_RoundTrip ==
    \A c \in Calls :
        /\ (Done(c, "upload_file") /\ args[c].overwrite /\ Returned(c))
           => Entry(hdfs, args[c].hdfs_path) = File(args[c].file_content)
        /\ (Done(c, "download_file") /\ Returned(c))
           => /\ IsFile(before[c], args[c].hdfs_path)
              /\ outcome[c].value = Entry(before[c], args[c].hdfs_path).content
              /\ hdfs = before[c]

\* the download of a file an upload has filled with a byte that is not ASCII
C13_Witness ==
    \E c \in Calls :
        /\ Done(c, "download_file") /\ Returned(c)
        /\ outcome[c].value = <<255>>

C15_MkdirIdempotent ==
    \A c \in Calls : Done(c, "mkdir") =>
        /\ (~ IsFile(before[c], args[c].hdfs_path) /\ ~ Blocked(before[c], args[c].hdfs_path))
           => /\ Returned(c) /\ outcome[c].value = None
              /\ IsDir(hdfs, args[c].hdfs_path)
        /\ IsDir(before[c], args[c].hdfs_path)
           => /\ Returned(c) /\ outcome[c].value = None
              /\ hdfs = before[c]

\* mkdir of a directory that exists and holds something
C15_Witness ==
    \E c \in Calls :
        /\ Done(c, "mkdir") /\ Returned(c)
        /\ IsDir(before[c], args[c].hdfs_path)
        /\ ChildrenOf(hdfs, args[c].hdfs_path) # <<>>

(* ------------------------------------------------------------------ *)
(* C16: list_dir(D) returns one entry per immediate child of D, in the *)
(* order the backend returned them, none added, dropped or reordered;  *)
(* for an empty directory it returns the empty sequence.               *)
(* ------------------------------------------------------------------ *)
\* the FileStatus array of a LISTSTATUS answer
FileStatusOf(r) == r.body.json.f["FileStatuses"].f["FileStatus"].a

C16_OneEntryPerChild ==
    \A c \in Calls :
        (Done(c, "list_dir") /\ IsDir(before[c], args[c].hdfs_path)) =>
            LET children == ChildrenOf(before[c], args[c].hdfs_path)
                file_list == FileStatusOf(LastRecv(c))
            IN /\ Returned(c)
               /\ Len(outcome[c].value) = Len(children)
               /\ Len(file_list) = Len(children)
               /\ \A i \in DOMAIN children :
                     /\ NameOf(outcome[c].value[i].path) = NameOf(children[i])
                     /\ NameOf(outcome[c].value[i].path) = PyVal(file_list[i].f["pathSuffix"])
                     /\ outcome[c].value[i].type = before[c][children[i]].type
                     /\ outcome[c].value[i].size = Len(before[c][children[i]].content)
               /\ children = <<>> => outcome[c].value = <<>>

\* a directory with a file and a directory in it is listed
C16_Witness ==
    \E c \in Calls :
        /\ Done(c, "list_dir") /\ Returned(c)
        /\ IsDir(before[c], args[c].hdfs_path)
        /\ Len(outcome[c].value) = 2
        /\ outcome[c].value[1].type # outcome[c].value[2].type

(* ------------------------------------------------------------------ *)
(* C17: whatever the parent path given to list_dir, with or without a  *)
(* trailing '/', a child's path in the result is the normalized parent *)
(* joined with the suffix by a single '/': it holds no '//' and is the *)
(* same for 'D' and 'D/'.                                              *)
(* ------------------------------------------------------------------ *)
\* the path without its trailing separators
RECURSIVE Normalized(_)
Normalized(p) ==
    IF p # <<>> /\ p[Len(p)] = "/" THEN Normalized(SubSeq(p, 1, Len(p) - 1)) ELSE p

HasDoubleSlash(p) == \E i \in 1..(Len(p) - 1) : p[i] = "/" /\ p[i + 1] = "/"

C17_JoinNormalized ==
    \A c \in Calls : (Done(c, "list_dir") /\ Returned(c)) =>
        \A i \in DOMAIN outcome[c].value :
            /\ outcome[c].value[i].path
                 = Normalized(args[c].hdfs_path) \o <<"/">>
                     \o PyVal(FileStatusOf(LastRecv(c))[i].f["pathSuffix"])
            /\ ~ HasDoubleSlash(outcome[c].value[i].path)

(* ------------------------------------------------------------------ *)
(* C18: after mkdir(D) has succeeded, so that D is a directory of the  *)
(* backend, list_dir(parent of D) contains an entry whose path is      *)
(* exactly D.                                                          *)
(* ------------------------------------------------------------------ *)
C18_MadeDirectoryListed ==
    \A c \in Calls : Done(c, "list_dir") =>
        \A D \in FsPaths :
            (IsDir(before[c], D) /\ ParentOf(D) = args[c].hdfs_path)
            => /\ Returned(c)
               /\ \E i \in DOMAIN outcome[c].value : outcome[c].value[i].path = D

(* ------------------------------------------------------------------ *)
(* C19: list_dir(P) fails with NOT_FOUND when P is absent on the       *)
(* backend or is not a directory; it returns no sequence for such a P. *)
(* ------------------------------------------------------------------ *)
C19_NotDirectoryIsNotFound ==
    \A c \in Calls :
        (Done(c, "list_dir") /\ ~ IsDir(before[c], args[c].hdfs_path))
        => /\ ~ Returned(c)
           /\ RaisedKind(c, NOT_FOUND)

(* ------------------------------------------------------------------ *)
(* C20: rename_path(src, dst) fails with NOT_FOUND when src is absent; *)
(* when it returns, dst holds what src held (so its status reports the *)
(* size src had) and src is absent; a rename the backend did not       *)
(* perform is never reported as success.                               *)
(* ------------------------------------------------------------------ *)
C20_RenameReported ==
    \A c \in Calls : Done(c, "rename_path") =>
        /\ ~ Exists(before[c], args[c].src_path) => RaisedKind(c, NOT_FOUND)
        /\ Returned(c) =>
              /\ Exists(before[c], args[c].src_path)
              /\ Entry(hdfs, args[c].dest_path) = Entry(before[c], args[c].src_path)
              /\ ~ Exists(hdfs, args[c].src_path)
              /\ LastRecv(c).body = BodyBoolean(TRUE)

(* ------------------------------------------------------------------ *)
(* C21: delete_path(P, recursive) of a file with recursive=false, or   *)
(* of a directory with recursive=true, returns and leaves the backend  *)
(* without P and without anything below it, so that a get_file_status  *)
(* of P made then fails with NOT_FOUND.                                *)
(* ------------------------------------------------------------------ *)
C21_DeletedIsNotFound ==
    \A c \in Calls :
        /\ ( /\ Done(c, "delete_path")
             /\ \/ IsFile(before[c], args[c].hdfs_path) /\ ~ args[c].recursive
                \/ IsDir(before[c], args[c].hdfs_path) /\ args[c].recursive )
           => /\ Returned(c)
              /\ \A q \in FsPaths : Under(args[c].hdfs_path, q) => ~ Exists(hdfs, q)
        /\ (Done(c, "delete_path") /\ Returned(c)) => ~ Exists(hdfs, args[c].hdfs_path)
        /\ (Done(c, "get_file_status") /\ ~ Exists(before[c], args[c].hdfs_path))
           => /\ RaisedKind(c, NOT_FOUND)
              /\ hdfs = before[c]

\* a directory that held something was deleted with recursive=true
C21_Witness ==
    \E c \in Calls :
        /\ Done(c, "delete_path") /\ Returned(c)
        /\ IsDir(before[c], args[c].hdfs_path) /\ args[c].recursive
        /\ ChildrenOf(before[c], args[c].hdfs_path) # <<>>
        /\ ~ Exists(hdfs, args[c].hdfs_path)

(* ------------------------------------------------------------------ *)
(* C22: every failure answer of the backend is classified once, and    *)
(* the caller of upload, download, delete, mkdir, rename, list and     *)
(* status receives exactly that kind and message, the failure of       *)
(* upload's confirming status query included.                          *)
(* ------------------------------------------------------------------ *)
FacadeOps == {"upload_file", "download_file", "delete_path", "mkdir", "rename_path",
              "list_dir", "get_file_status"}

\* the call ended on a failure answer of the backend
FailedAnswer(c) ==
    /\ pc[c] = "done" /\ args[c].op \in FacadeOps
    /\ Len(sent[c]) >= 1 /\ Len(recv[c]) = Len(sent[c])
    /\ Answered(LastRecv(c)) /\ LastRecv(c).status \in FailureStatuses

C22_ClassifiedUnchanged ==
    \A c \in Calls : FailedAnswer(c) => outcome[c] = _handle_http_error(LastRecv(c))

(* ------------------------------------------------------------------ *)
(* concurrent upload_file calls on one client: the coroutines are      *)
(* interleaved at their awaits in every order, and each request gets   *)
(* one of a few answers                                                *)
(* ------------------------------------------------------------------ *)
ConcCreateReplies ==
    { Reply(307, [Location |-> l], BodyEmpty, <<>>) : l \in DataNodes }
    \cup { Reply(200, <<>>, BodyEmpty, <<>>), Reply(409, <<>>, BodyRemote, <<>>),
           NoReply("ConnectError") }
ConcPutReplies ==
    { Reply(201, <<>>, BodyEmpty, <<>>), Reply(500, <<>>, BodyHtml, <<>>),
      NoReply("ReadTimeout") }
ConcStatusReplies ==
    { Reply(200, <<>>, BodyFileStatus(0, "FILE"), <<>>), Reply(404, <<>>, BodyRemote, <<>>) }

NextCC ==
    \E c \in Calls :
        \/ \E p \in Paths, b \in Contents, o \in BOOLEAN : upload_file(c, p, b, o) /\ UNCHANGED <<backend, elsewhere>>
        \/ \E r \in ConcCreateReplies : upload_file_create(c, r) /\ UNCHANGED <<backend, elsewhere>>
        \/ \E r \in ConcPutReplies : upload_file_put(c, r) /\ UNCHANGED <<backend, elsewhere>>
        \/ \E r \in ConcStatusReplies : get_file_status_resp(c, r) /\ UNCHANGED <<backend, elsewhere>>

SpecCC == Init /\ [][NextCC]_vars

(* ------------------------------------------------------------------ *)
(* C23: under every interleaving of concurrent upload_file calls, to   *)
(* the same path or not, each call keeps its own session: its payload  *)
(* PUT goes to the Location its own control request was answered with  *)
(* and carries its own bytes, its status query names its own path, and *)
(* whatever the other calls are doing, a call can be made and a call   *)
(* that awaits an answer goes on when the answer arrives.              *)
(* ------------------------------------------------------------------ *)
C23_OwnSession(c) ==
    /\ sent[c][1] = CreateRequest(args[c])
    /\ \A i \in Payloads(c) :
          /\ i = 2 /\ recv[c][1] = create_resp[c]
          /\ sent[c][i] = PayloadRequest(recv[c][1].headers["Location"],
                                         args[c].file_content)
    /\ \A i \in DOMAIN sent[c] :
          (i > 1 /\ i \notin Payloads(c)) => sent[c][i] = StatusRequest(args[c].hdfs_path)

C23_NeverWaits(c) ==
    /\ Free(c) =>
          ENABLED (\E p \in Paths : upload_file(c, p, <<>>, TRUE) /\ UNCHANGED <<backend, elsewhere>>)
    /\ pc[c] = "create" =>
          ENABLED (\E r \in ConcCreateReplies : upload_file_create(c, r) /\ UNCHANGED <<backend, elsewhere>>)
    /\ pc[c] = "put" =>
          ENABLED (\E r \in ConcPutReplies : upload_file_put(c, r) /\ UNCHANGED <<backend, elsewhere>>)
    /\ pc[c] = "status" =>
          ENABLED (\E r \in ConcStatusReplies : get_file_status_resp(c, r) /\ UNCHANGED <<backend, elsewhere>>)

C23_ConcurrentUploads ==
    \A c \in Calls :
        /\ IsUpload(c) => C23_OwnSession(c)
        /\ C23_NeverWaits(c)

\* two uploads to one path, with different bytes, redirected to different data
\* nodes: one awaits its status query while the other still awaits its payload PUT
C23_Witness ==
    \E c \in Calls, d \in Calls :
        /\ c # d /\ IsUpload(c) /\ IsUpload(d)
        /\ args[c].hdfs_path = args[d].hdfs_path
        /\ args[c].file_content # args[d].file_content
        /\ pc[c] = "status" /\ pc[d] = "put"
        /\ Payloads(c) = {2}
        /\ sent[c][2].url # sent[d][2].url

(* ------------------------------------------------------------------ *)
(* the gateway endpoints /hadoop/upload and /hadoop/delete: the HTTP   *)
(* response each gives for what the facade call returned or raised     *)
(* ------------------------------------------------------------------ *)
HttpResponse(status, error_code, detail) ==
    [status |-> status, error_code |-> error_code, detail |-> detail]

\* @app.exception_handler(Exception): what an exception no endpoint catches becomes
global_exception_handler(o) == HttpResponse(500, "INTERNAL_ERROR", "Server internal error")

\* the endpoint upload_file: three except clauses, the last one for every Exception
upload_endpoint(o) ==
    IF o.kind = "return" THEN HttpResponse(200, None, o.value)
    ELSE IF o.cls = "HDFSNotFoundError"
    THEN HttpResponse(404, "HDFS_PATH_NOT_FOUND", o.msg)
    ELSE IF o.cls = "HDFSConflictError"
    THEN HttpResponse(409, "HDFS_PATH_EXISTS", o.msg)
    ELSE HttpResponse(500, "HDFS_OPERATION_FAILED", o.msg)

\* the endpoint delete_path: one except clause
delete_endpoint(o) ==
    IF o.kind = "return" THEN HttpResponse(200, None, "Successfully deleted")
    ELSE IF o.cls = "HDFSNotFoundError"
    THEN HttpResponse(404, "HDFS_PATH_NOT_FOUND", o.msg)
    ELSE global_exception_handler(o)

\* the response of the endpoint whose facade call is c
EndpointResponse(c) ==
    IF args[c].op = "upload_file" THEN upload_endpoint(outcome[c])
    ELSE delete_endpoint(outcome[c])

(* ------------------------------------------------------------------ *)
(* C24: at the upload and delete endpoints every error kind of the     *)
(* facade maps to an HTTP status: NOT_FOUND to 404, CONFLICT to 409,   *)
(* UNAUTHORIZED (a 401 or 403 of the backend) to 401 or 403, every     *)
(* other kind to 500, and the detail carries the kind's message.       *)
(* ------------------------------------------------------------------ *)
C24_KindToStatus ==
    \A c \in Calls :
        ((Done(c, "upload_file") \/ Done(c, "delete_path")) /\ Raised(c)) =>
            LET resp == EndpointResponse(c)
                unauthorized == /\ Len(recv[c]) = Len(sent[c]) /\ Answered(LastRecv(c))
                                /\ LastRecv(c).status \in {401, 403}
            IN /\ resp.detail = outcome[c].msg
               /\ IF unauthorized THEN resp.status \in {401, 403}
                  ELSE IF outcome[c].cls = NOT_FOUND THEN resp.status = 404
                  ELSE IF outcome[c].cls = CONFLICT THEN resp.status = 409
                  ELSE resp.status = 500

(* ------------------------------------------------------------------ *)
(* C25: no operation changes the configuration of the client: after    *)
(* every sequence of calls, mkdir with a permission among them,        *)
(* base_url and common_params are what __init__ made them, and no      *)
(* request but the mkdir given a permission (and the CREATE of an      *)
(* upload) carries a permission.                                       *)
(* ------------------------------------------------------------------ *)
C25_ConfigUnchanged ==
    /\ base_url = "http://" \o HADOOP_HOST \o ":" \o ToString(HADOOP_PORT) \o "/webhdfs/v1"
    /\ common_params = ("user.name" :> HADOOP_USER)
    /\ \A c \in Calls : \A i \in DOMAIN sent[c] :
          "permission" \in DOMAIN sent[c][i].params
          => \/ OpOf(sent[c][i]) = "CREATE"
             \/ /\ OpOf(sent[c][i]) = "MKDIRS"
                /\ sent[c][i].params["permission"] = args[c].permission

\* a mkdir with a permission has been made and answered
C25_Witness ==
    \E c \in Calls :
        /\ Done(c, "mkdir") /\ args[c].permission = "700"
        /\ sent[c][1].params = [op |-> "MKDIRS", permission |-> "700"]
                                 @@ ("user.name" :> HADOOP_USER)
        /\ common_params = ("user.name" :> HADOOP_USER)

(* ------------------------------------------------------------------ *)
(* the client when every request it awaits is answered, or fails, in   *)
(* the end                                                             *)
(* ------------------------------------------------------------------ *)
Answers ==
    \E c \in Awaited :
        \/ \E r \in CreateReplies : upload_file_create(c, r) /\ UNCHANGED <<backend, elsewhere>>
        \/ \E r \in PutReplies : upload_file_put(c, r) /\ UNCHANGED <<backend, elsewhere>>
        \/ \E r \in StatusReplies : get_file_status_resp(c, r) /\ UNCHANGED <<backend, elsewhere>>
        \/ \E r \in OpenReplies : download_file_resp(c, r) /\ UNCHANGED <<backend, elsewhere>>
        \/ \E r \in BooleanReplies : delete_path_resp(c, r) /\ UNCHANGED <<backend, elsewhere>>
        \/ \E r \in BooleanReplies : mkdir_resp(c, r) /\ UNCHANGED <<backend, elsewhere>>
        \/ \E r \in BooleanReplies : rename_path_resp(c, r) /\ UNCHANGED <<backend, elsewhere>>
        \/ \E r \in ListReplies : list_dir_resp(c, r) /\ UNCHANGED <<backend, elsewhere>>
        \/ \E r \in HomeReplies : check_connection_resp(c, r) /\ UNCHANGED <<backend, elsewhere>>

SpecLive == Init /\ [][Next]_vars /\ WF_vars(Answers)

(* ------------------------------------------------------------------ *)
(* C26: an upload moves only along NEGOTIATING -> REDIRECTED or        *)
(* IMMEDIATE -> TRANSFERRING -> DONE or FAILED: TRANSFERRING is        *)
(* entered from REDIRECTED only, no phase is entered again, DONE and   *)
(* FAILED are final, and when every request is answered or fails in    *)
(* the end, every upload reaches DONE or FAILED.                       *)
(*   NEGOTIATING: the call awaits the control request                  *)
(*   REDIRECTED: the control response is a 307 with a Location; the    *)
(*     call goes on to the payload PUT without an await in between     *)
(*   TRANSFERRING: the call awaits the payload PUT                     *)
(*   IMMEDIATE: the control response is a 2xx                          *)
(*   DONE, FAILED: the call has returned, has raised                   *)
(* The status query that confirms the upload is awaited in the phase   *)
(* the call is in when it sends it.                                    *)
(* ------------------------------------------------------------------ *)
Phase(c) ==
    IF ~ IsUpload(c) THEN None
    ELSE IF pc[c] = "create" THEN "NEGOTIATING"
    ELSE IF pc[c] = "put" THEN "TRANSFERRING"
    ELSE IF pc[c] = "status" THEN (IF Redirected(c) THEN "TRANSFERRING" ELSE "IMMEDIATE")
    ELSE IF Returned(c) THEN "DONE" ELSE "FAILED"

\* the order of the phases
Rank(ph) ==
    IF ph = "NEGOTIATING" THEN 1
    ELSE IF ph \in {"TRANSFERRING", "IMMEDIATE"} THEN 2
    ELSE 3

\* what a call keeps
Frame(c) == <<pc[c], args[c], sent[c], recv[c], create_resp[c], upload_url[c], outcome[c]>>

\* a call is made in the slot c
Begins(c) == Free(c) /\ ~ Free(c)' /\ Len(sent[c]') = 1 /\ recv[c]' = <<>>

C26_Step ==
    \A c \in Calls :
        (Frame(c)' # Frame(c) /\ ~ Begins(c)) =>
            /\ IsUpload(c) =>
                  /\ IsUpload(c)' /\ args[c]' = args[c]
                  /\ Phase(c) \notin {"DONE", "FAILED"}
                  /\ Rank(Phase(c)') >= Rank(Phase(c))
                  /\ Len(sent[c]') > Len(sent[c]) => Rank(Phase(c)') = Rank(Phase(c)) + 1
                                                      \/ Phase(c)' = Phase(c)
                  /\ (Phase(c)' = "TRANSFERRING" /\ Phase(c) # "TRANSFERRING")
                     => (Phase(c) = "NEGOTIATING" /\ Redirected(c)' /\ pc[c]' = "put")
                  /\ Phase(c)' = "IMMEDIATE"
                     => (Phase(c) = "NEGOTIATING" /\ Immediate(c)')
                  /\ pc[c]' # "create"
                  /\ pc[c]' # pc[c]

C26_SessionPhases ==
    /\ [][C26_Step]_vars
    /\ \A c \in Calls :
          (IsUpload(c) /\ pc[c] # "done") ~> (IsUpload(c) /\ Phase(c) \in {"DONE", "FAILED"})

\* an upload that was redirected, transferred its bytes and failed at the
\* confirming status query with a 404
C26_Witness ==
    \E c \in Calls :
        /\ IsUpload(c) /\ Redirected(c) /\ Phase(c) = "FAILED"
        /\ Len(sent[c]) = 3 /\ Len(recv[c]) = 3
        /\ Answered(recv[c][3]) /\ recv[c][3].status = 404

(* ------------------------------------------------------------------ *)
(* the instances callers make: each gateway request makes one          *)
(* (endpoints/hadoop.py 36, 78), the unit test makes one in an         *)
(* `async with` block (unit_test/hadoop_test.py 7). __init__ opens     *)
(* the AsyncClient, __aexit__ closes it; no other code does.           *)
(* ------------------------------------------------------------------ *)
\* no caller holds an instance
NoScope == \A i \in Instances : scope[i] \in {None, "over"}

\* self.client = httpx.AsyncClient(timeout=30.0)
HadoopAPIClient(i, by) ==
    /\ scope[i] = None
    /\ NoScope
    /\ client' = [client EXCEPT ![i] = "open"]
    /\ scope' = [scope EXCEPT ![i] = by]

\* await self.client.aclose()
aclose(i) == client' = [client EXCEPT ![i] = "closed"]

\* POST /hadoop/upload: client = HadoopAPIClient(); await client.upload_file(...)
upload_endpoint_begin(i, c, p, b, o) ==
    /\ HadoopAPIClient(i, "upload_file")
    /\ upload_file(c, p, b, o)
    /\ UNCHANGED <<backend, cache>>

\* DELETE /hadoop/delete: client = HadoopAPIClient(); await client.delete_path(...)
delete_endpoint_begin(i, c, p, rec) ==
    /\ HadoopAPIClient(i, "delete_path")
    /\ delete_path(c, p, rec)
    /\ UNCHANGED <<backend, cache>>

\* the handler returns its response model or raises, through its except clauses
\* or past them; on no path does it close the client or leave a with block
endpoint_end(i, c) ==
    /\ scope[i] \in {"upload_file", "delete_path"}
    /\ pc[c] = "done"
    /\ scope' = [scope EXCEPT ![i] = "over"]
    /\ UNCHANGED <<client, cache, hadoop>>

\* async with HadoopAPIClient() as client:
aenter(i) ==
    /\ HadoopAPIClient(i, "async with")
    /\ UNCHANGED <<cache, hadoop>>

\* the calls of the block
within(i, c) ==
    /\ scope[i] = "async with"
    /\ Free(c)
    /\ \/ \E p \in Paths, perm \in Permissions : mkdir(c, p, perm)
       \/ \E p \in Paths, rec \in BOOLEAN : delete_path(c, p, rec)
    /\ UNCHANGED <<backend, elsewhere>>

\* the block is left, by its last statement or by an exception: __aexit__
aexit(i, c) ==
    /\ scope[i] = "async with"
    /\ Free(c)
    /\ aclose(i)
    /\ scope' = [scope EXCEPT ![i] = "over"]
    /\ UNCHANGED <<cache, hadoop>>

\* a call of an instance takes its answer
answered(c) ==
    /\ ~ NoScope
    /\ \/ \E r \in CreateReplies : upload_file_create(c, r)
       \/ \E r \in PutReplies : upload_file_put(c, r)
       \/ \E r \in StatusReplies : get_file_status_resp(c, r)
       \/ \E r \in BooleanReplies : delete_path_resp(c, r)
       \/ \E r \in BooleanReplies : mkdir_resp(c, r)
    /\ UNCHANGED <<backend, elsewhere>>

NextGW ==
    \E c \in Awaited, i \in Instances :
        \/ \E p \in Paths, b \in Contents, o \in BOOLEAN : upload_endpoint_begin(i, c, p, b, o)
        \/ \E p \in Paths, rec \in BOOLEAN : delete_endpoint_begin(i, c, p, rec)
        \/ endpoint_end(i, c)
        \/ aenter(i)
        \/ within(i, c)
        \/ aexit(i, c)
        \/ answered(c)

SpecGW == Init /\ [][NextGW]_vars

(* ------------------------------------------------------------------ *)
(* C27: the transport of every instance that is made is closed when    *)
(* the code that made it is through with it, whether its call          *)
(* returned or raised: the instance of a gateway upload or delete      *)
(* request when the handler has ended, the instance of an `async       *)
(* with` block when the block is left.                                 *)
(* ------------------------------------------------------------------ *)
C27_TransportReleased ==
    \A i \in Instances : scope[i] = "over" => client[i] = "closed"

(* ------------------------------------------------------------------ *)
(* C28: a call of download_file, delete_path, mkdir, rename_path,      *)
(* list_dir or get_file_status whose request is answered with a        *)
(* status outside 2xx raises: it never returns, with None or with      *)
(* anything else.                                                      *)
(* ------------------------------------------------------------------ *)
HandledOps ==
    {"download_file", "delete_path", "mkdir", "rename_path", "list_dir", "get_file_status"}

ErrorResponse(c) ==
    /\ pc[c] = "done"
    /\ args[c].op \in HandledOps
    /\ Len(recv[c]) = 1
    /\ Answered(recv[c][1]) /\ recv[c][1].status \notin 200..299

C28_ErrorResponseRaises ==
    \A c \in Calls : ErrorResponse(c) => Raised(c) /\ ~ Returned(c)

\* a rename answered with a 500 and a page that is not JSON has raised
C28_Witness ==
    \E c \in Calls :
        /\ ErrorResponse(c) /\ args[c].op = "rename_path"
        /\ recv[c][1].status = 500 /\ recv[c][1].body = BodyHtml
        /\ RaisedKind(c, UNKNOWN)

(* ------------------------------------------------------------------ *)
(* MLflowAPIClient: create_experiment, register_model, _post,          *)
(* _handle_http_error (services/mlflow_service.py). A call of this     *)
(* client uses a slot as the calls of the Hadoop client do.            *)
(* ------------------------------------------------------------------ *)
MLFLOW_URL == "http://localhost:5001/api/2.0/mlflow"

\* {"error_code": code, "message": message}
BodyMlflow(code, message) ==
    Body("{error_code:" \o code \o ",message:" \o message \o "}",
         JObj([error_code |-> JStr(code), message |-> JStr(message)]))

\* the answers of the tracking server to one POST
MlflowReplies ==
    { Reply(200, <<>>, Body("{id:1}", JObj([id |-> JStr("1")])), <<>>),
      Reply(200, <<>>, BodyEmpty, <<>>),
      Reply(409, <<>>, BodyMlflow("RESOURCE_ALREADY_EXISTS", "exists"), <<>>),
      Reply(409, <<>>, BodyMlflow("INVALID_STATE", "busy"), <<>>) }
    \cup { Reply(st, <<>>, b, <<>>) :
             st \in {400, 401, 404, 500},
             b \in {BodyMlflow("INVALID_PARAMETER_VALUE", "bad"), BodyOtherDict, BodyHtml, BodyList} }
    \cup TransportErrors

\* an Optional[Dict[str, str]] argument: None, or the items of the dict
NoDict == [none |-> TRUE, items |-> <<>>]
Dict(items) == [none |-> FALSE, items |-> items]
TagSets == { NoDict, Dict(<<>>), Dict(<< [key |-> "k", value |-> "v"] >>) }

\* `if x:` for an Optional[str]
Truthy(x) == x \notin {None, ""}

\* payload[key] = value, when `given`
With(payload, given, key, value) == IF given THEN payload @@ (key :> value) ELSE payload

\* self.client.post(f"{self.base_url}{endpoint}", json=payload)
PostRequest(endpoint, payload) ==
    Request("POST", <<MLFLOW_URL, endpoint>>, <<>>, payload, <<>>, FALSE)

\* MLflowAPIClient._handle_http_error: what it raises
MLflow_handle_http_error(resp) ==
    LET j == resp.body.json
        get(key, default) == IF key \in DOMAIN j.f THEN PyStr(j.f[key]) ELSE default IN
    IF j.t \notin {"invalid", "obj"}
    THEN Raise("AttributeError", "no attribute 'get'", resp.status)
    ELSE LET error_detail == IF j.t = "invalid" THEN resp.body.text
                             ELSE get("error_code", "Unknown error")
             message == IF j.t = "invalid" THEN "" ELSE get("message", "") IN
         IF resp.status = 404
         THEN Raise("MLflowAPIClient.NotFoundError", "Resource not found: " \o message, 404)
         ELSE IF resp.status = 401
         THEN Raise("MLflowAPIClient.UnauthorizedError", "Invalid credentials", 401)
         ELSE Raise("MLflowAPIClient.APIError",
                    "MLflow API Error [" \o error_detail \o "]: " \o message, resp.status)

\* MLflowAPIClient._post: what the awaited call gives its caller
_post(resp) ==
    IF resp.transport # "ok" THEN TransportError(resp)
    ELSE IF ~ is_success(resp) THEN MLflow_handle_http_error(resp)
    ELSE IF resp.body.json.t = "invalid" THEN Raise("json.JSONDecodeError", resp.body.text, 0)
    ELSE Return(resp.body.json)

\* MLflowAPIClient.create_experiment, up to the await of _post
create_experiment(c, experiment_name, artifact_location, tags) ==
    /\ Free(c)
    /\ Enter(c,
             [op |-> "create_experiment", experiment_name |-> experiment_name,
              artifact_location |-> artifact_location, tags |-> tags],
             PostRequest("/experiments/create",
                 With(With([name |-> experiment_name],
                           Truthy(artifact_location), "artifact_location", artifact_location),
                      tags.items # <<>>, "tags", tags.items)),
             "experiment")

\* the try/except around the await (lines 165-173): a result is returned; an
\* httpx.HTTPStatusError is handled, and gives {"status": "exists"} for a 409
\* with error_code RESOURCE_ALREADY_EXISTS and None otherwise; any other
\* exception passes
create_experiment_outcome(o, resp) ==
    IF o.kind = "raise" /\ o.cls = "httpx.HTTPStatusError"
    THEN IF /\ resp.status = 409
            /\ resp.body.json.t = "obj"
            /\ "error_code" \in DOMAIN resp.body.json.f
            /\ resp.body.json.f.error_code = JStr("RESOURCE_ALREADY_EXISTS")
         THEN Return([status |-> "exists"])
         ELSE Return(None)
    ELSE o

create_experiment_resp(c, r) ==
    /\ pc[c] = "experiment"
    /\ recv' = [recv EXCEPT ![c] = Append(@, r)]
    /\ Finish(c, create_experiment_outcome(_post(r), r))
    /\ UNCHANGED <<config, args, sent, create_resp, upload_url>>

\* MLflowAPIClient.register_model, up to the await in create_registered_model
register_model(c, run_id, model_name, source, tags, run_link, description) ==
    /\ Free(c)
    /\ Enter(c,
             [op |-> "register_model", run_id |-> run_id, model_name |-> model_name,
              source |-> source, tags |-> tags, run_link |-> run_link,
              description |-> description],
             PostRequest("/registered-models/create",
                 With([name |-> model_name], Truthy(description), "description", description)),
             "registered-model")

\* payload of /model-versions/create (lines 63-78)
VersionPayload(a) ==
    With(With(With([name |-> a.model_name,
                    source |-> IF Truthy(a.source) THEN a.source
                               ELSE "runs:/" \o a.run_id \o "/model",
                    run_id |-> a.run_id],
                   a.tags.items # <<>>, "tags", a.tags.items),
              Truthy(a.run_link), "run_link", a.run_link),
         Truthy(a.description), "description", a.description)

\* the try/except around create_registered_model (lines 55-61): the call goes on
\* when the model was created or an httpx.HTTPStatusError carries a 409; every
\* other exception passes
register_model_goes_on(o) ==
    \/ o.kind = "return"
    \/ o.kind = "raise" /\ o.cls = "httpx.HTTPStatusError" /\ o.status = 409

register_model_created(c, r) ==
    /\ pc[c] = "registered-model"
    /\ recv' = [recv EXCEPT ![c] = Append(@, r)]
    /\ IF register_model_goes_on(_post(r))
       THEN /\ Send(c, PostRequest("/model-versions/create", VersionPayload(args[c])),
                    "model-version")
            /\ UNCHANGED outcome
       ELSE /\ Finish(c, _post(r))
            /\ UNCHANGED sent
    /\ UNCHANGED <<config, args, create_resp, upload_url>>

register_model_resp(c, r) ==
    /\ pc[c] = "model-version"
    /\ recv' = [recv EXCEPT ![c] = Append(@, r)]
    /\ Finish(c, _post(r))
    /\ UNCHANGED <<config, args, sent, create_resp, upload_url>>

NextML ==
    \E c \in Awaited :
        \/ \E a \in {None, "", "hdfs:///m"}, t \in TagSets :
              create_experiment(c, "e1", a, t) /\ UNCHANGED <<backend, elsewhere>>
        \/ \E r \in MlflowReplies : create_experiment_resp(c, r) /\ UNCHANGED <<backend, elsewhere>>
        \/ \E src \in {None, "s3://m"}, t \in TagSets, l \in {None, "http://l"}, d \in {None, "d"} :
              register_model(c, "r1", "m1", src, t, l, d) /\ UNCHANGED <<backend, elsewhere>>
        \/ \E r \in MlflowReplies : register_model_created(c, r) /\ UNCHANGED <<backend, elsewhere>>
        \/ \E r \in MlflowReplies : register_model_resp(c, r) /\ UNCHANGED <<backend, elsewhere>>

SpecML == Init /\ [][NextML]_vars

(* ------------------------------------------------------------------ *)
(* C29: create_experiment answered 409 with error_code                 *)
(* RESOURCE_ALREADY_EXISTS returns {"status": "exists"} and does not   *)
(* raise; register_model whose registered-models/create is answered    *)
(* 409 skips the creation and sends the model-versions/create request. *)
(* ------------------------------------------------------------------ *)
AlreadyExists(r) ==
    /\ Answered(r) /\ r.status = 409
    /\ r.body = BodyMlflow("RESOURCE_ALREADY_EXISTS", "exists")

C29_ExistingIsTolerated ==
    \A c \in Calls :
        /\ (/\ Done(c, "create_experiment")
            /\ AlreadyExists(recv[c][1]))
           => outcome[c] = Return([status |-> "exists"])
        /\ (/\ args[c].op = "register_model"
            /\ Len(recv[c]) >= 1
            /\ AlreadyExists(recv[c][1]))
           => /\ Len(sent[c]) = 2
              /\ sent[c][2].url = <<MLFLOW_URL, "/model-versions/create">>

(* ------------------------------------------------------------------ *)
(* APIKeyValidator and api_key_auth (core/security.py). No await of    *)
(* these coroutines suspends (the key source is a dict built in        *)
(* place), so each call runs to its end in one step. A call uses a     *)
(* slot: args is the function and its key, sent the calls it made into *)
(* the validator and the key source, outcome what the caller got.      *)
(* ------------------------------------------------------------------ *)
KeyInfo(name, permissions, rate_limit) ==
    [name |-> name, permissions |-> permissions, rate_limit |-> rate_limit]

\* the None that valid_keys.get(api_key) gives for a key it does not hold
NoKeyInfo == KeyInfo(None, <<>>, 0)

valid_keys ==
    ("prod-key-123" :> KeyInfo("production key", <<"read", "write">>, 1000))
    @@ ("monitor-key-456" :> KeyInfo("monitor key", <<"read">>, 100))

\* the X-API-Key header of a request: absent (None), empty, a key of the source,
\* and keys the source does not hold
ApiKeys == {None, "", "prod-key-123", "monitor-key-456", "prod-key-124", "x"}

_get_key_from_source(api_key) ==
    IF api_key \in DOMAIN valid_keys THEN valid_keys[api_key] ELSE NoKeyInfo

\* a call made into the validator or the key source
CallTo(f, api_key) == [to |-> f, api_key |-> api_key]

\* a validator that stores what the source gave before it looks at it
validate_key_store_first(ch, api_key) ==
    IF api_key \in DOMAIN ch
    THEN [outcome |-> Return(ch[api_key]), cache |-> ch, calls |-> <<>>]
    ELSE LET key_info == _get_key_from_source(api_key) IN
         [outcome |-> IF key_info = NoKeyInfo
                      THEN Raise("HTTPException", "invalid API key", 403)
                      ELSE Return(key_info),
          cache |-> ch @@ (api_key :> key_info),
          calls |-> << CallTo("_get_key_from_source", api_key) >>]

\* APIKeyValidator.validate_key on the cache ch: what it returns or raises, the
\* cache it leaves, the calls it makes
validate_key(ch, api_key) ==
    IF api_key \in DOMAIN ch
    THEN [outcome |-> Return(ch[api_key]), cache |-> ch, calls |-> <<>>]
    ELSE LET key_info == _get_key_from_source(api_key) IN
         IF key_info = NoKeyInfo
         THEN [outcome |-> Raise("HTTPException", "invalid API key", 403),
               cache |-> ch,
               calls |-> << CallTo("_get_key_from_source", api_key) >>]
         ELSE [outcome |-> Return(key_info),
               cache |-> ch @@ (api_key :> key_info),
               calls |-> << CallTo("_get_key_from_source", api_key) >>]

\* a call in the slot c ran to its end
Ran(c, a, calls, o) ==
    /\ pc' = [pc EXCEPT ![c] = "done"]
    /\ args' = [args EXCEPT ![c] = a]
    /\ sent' = [sent EXCEPT ![c] = calls]
    /\ recv' = [recv EXCEPT ![c] = <<>>]
    /\ outcome' = [outcome EXCEPT ![c] = o]
    /\ UNCHANGED <<config, create_resp, upload_url, backend, client, scope>>

\* api_key_validator.validate_key(api_key), called by itself
validate_key_call(c, api_key) ==
    /\ Free(c)
    /\ cache' = validate_key(cache, api_key).cache
    /\ Ran(c, [op |-> "validate_key", api_key |-> api_key],
           validate_key(cache, api_key).calls,
           validate_key(cache, api_key).outcome)

\* the dependency of every route: api_key_auth(api_key)
api_key_auth(c, api_key) ==
    /\ Free(c)
    /\ IF api_key \in {None, ""}
       THEN /\ cache' = cache
            /\ Ran(c, [op |-> "api_key_auth", api_key |-> api_key], <<>>,
                   Raise("HTTPException", "missing API key", 401))
       ELSE /\ cache' = validate_key(cache, api_key).cache
            /\ Ran(c, [op |-> "api_key_auth", api_key |-> api_key],
                   <<CallTo("validate_key", api_key)>> \o validate_key(cache, api_key).calls,
                   validate_key(cache, api_key).outcome)

NextSec ==
    \E c \in Calls :
        \/ \E k \in ApiKeys : api_key_auth(c, k)
        \/ \E k \in ApiKeys \ {None} : validate_key_call(c, k)

SpecSec == Init /\ [][NextSec]_vars

(* ------------------------------------------------------------------ *)
(* C30: every key in the cache is a key the source accepted, and maps  *)
(* to the info the source returned for it; a validate_key of a key the *)
(* source rejects raises 403 and leaves the cache as it was; an        *)
(* api_key_auth without a key raises 401 and calls neither the         *)
(* validator nor the source, and leaves the cache as it was.           *)
(* ------------------------------------------------------------------ *)
Rejected(k) == k \notin DOMAIN valid_keys

C30_CacheHoldsAccepted ==
    \A k \in DOMAIN cache : ~ Rejected(k) /\ cache[k] = _get_key_from_source(k)

C30_Step ==
    \A c \in Calls :
        Frame(c)' # Frame(c) =>
            /\ (args[c]'.op = "api_key_auth" /\ args[c]'.api_key \in {None, ""})
               => /\ outcome[c]' = Raise("HTTPException", "missing API key", 401)
                  /\ sent[c]' = <<>>
                  /\ cache' = cache
            /\ (/\ Rejected(args[c]'.api_key)
                /\ \/ args[c]'.op = "validate_key"
                   \/ args[c]'.api_key \notin {None, ""})
               => /\ outcome[c]' = Raise("HTTPException", "invalid API key", 403)
                  /\ cache' = cache

C30_ValidatorCache == [] C30_CacheHoldsAccepted /\ [][C30_Step]_vars

\* with an accepted key in the cache, one caller was refused a key the source
\* does not hold and another came without a key
C30_Witness ==
    /\ "prod-key-123" \in DOMAIN cache
    /\ \E c, d \in Calls :
          /\ Done(c, "api_key_auth") /\ args[c].api_key = "prod-key-124"
          /\ outcome[c].kind = "raise" /\ outcome[c].status = 403
          /\ Done(d, "api_key_auth") /\ args[d].api_key = None
          /\ outcome[d].kind = "raise" /\ outcome[d].status = 401

====
